---- MODULE Spec2Model ----
(***************************************************************************)
(* BUSY v2 document parser and import resolver (packages/busy-python).     *)
(*                                                                         *)
(* Text is modelled line by line.  A text is a record                      *)
(*     [lines |-> <<line, ...>>, nl |-> BOOLEAN]                           *)
(* where nl says whether the last line is terminated by a newline, and a   *)
(* line is a record whose field k names what the parser's regular          *)
(* expressions can see of it:                                              *)
(*   "fm"          ---                     the frontmatter fence           *)
(*   "yaml"        Key: value              one entry of a YAML mapping     *)
(*   "yamlbad"     text yaml.safe_load rejects (YAMLError)                 *)
(*   "yamlscalar"  text yaml.safe_load loads as a plain scalar             *)
(*   "h1"          # Label   or  # [Label]                                 *)
(*   "h2"          ## Name   or  ## [Name]                                 *)
(*   "h3"          ### Label or  ### [Label]                               *)
(*   "num"         <n>. <text>                                             *)
(*   "bullet"      - <declaration>                                         *)
(*   "text"        any other non-blank line                                *)
(*   "ref"         [Concept]: path   or  [Concept]: path#anchor            *)
(*   "fence"       ```  or  ```info    a line that starts with three       *)
(*                 backticks                                               *)
(* Blank lines are not modelled.  Names that the code lower-cases or       *)
(* rewrites (operation names, definition names, anchors) are sequences of  *)
(* one-character strings; paths are sequences of path segments.            *)
(*                                                                         *)
(* A Python call that may raise is an operator returning Ok(v) or          *)
(* Raise(exception).                                                       *)
(***************************************************************************)
EXTENDS Integers, Sequences, FiniteSets, TLC

VARIABLES
    content,    \* parse_document: the text handed to it
    outcome,    \* parse_document: <<>> before the call, <<result>> after it
    fs,         \* the directory tree: file key -> what the file holds
    root,       \* resolve_imports: the document of the top-level call
    stack,      \* resolve_imports: the frames of the calls in progress
    visited,    \* resolve_imports: the _visited set shared by all frames
    reads,      \* every read_text so far, in order (the keys read)
    status,     \* resolve_imports: "running", "returned" or "raised"
    result      \* resolve_imports: the mapping returned or the exception raised

vars == <<content, outcome, fs, root, stack, visited, reads, status, result>>

----------------------------------------------------------------------------
(* Results and exceptions                                                  *)

Ok(v) == [ok |-> TRUE, val |-> v]

Raise(e) == [ok |-> FALSE, exc |-> e]

\* An exception: its class, the message template, the elements the message
\* names (each tagged with what it is: a field, a path, an anchor, a tool, a
\* trigger bullet) and the inner exception whose text the message embeds
\* (<<>> when there is none).
Exc(cls, what, items, cause) ==
    [cls |-> cls, what |-> what, items |-> items, cause |-> cause]

Item(tag, v) == [tag |-> tag, v |-> v]

BusyValidationError(what, items) == Exc("BusyValidationError", what, items, <<>>)

BusyImportError(what, items) == Exc("BusyImportError", what, items, <<>>)

\* pydantic's ValidationError raised by a model constructor
PydanticError(model, field) ==
    Exc("ValidationError", model, <<Item("field", field)>>, <<>>)

ValueError(what) == Exc("ValueError", what, <<>>, <<>>)

\* The message of e names the element v tagged tag.
Names(e, tag, v) ==
    \E i \in 1..Len(e.items) : e.items[i].tag = tag /\ e.items[i].v = v

\* The message of e embeds the text of an exception of class cls.
Embeds(e, cls) == e.cause # <<>> /\ e.cause[1].cls = cls

Text(ls, nl) == [lines |-> ls, nl |-> nl]

SubSeqFrom(s, i) == SubSeq(s, i, Len(s))

\* the least element of a non-empty set of integers
Min(S) == CHOOSE x \in S : \A y \in S : x <= y

----------------------------------------------------------------------------
(* Frontmatter                                                             *)
(* A YAML value is [t |-> tag, v |-> <<string, ...>>]: "str" with the      *)
(* string, "list" with the str() of each element, "int" with its digits,   *)
(* "null" with nothing.                                                    *)

YStr(s) == [t |-> "str", v |-> <<s>>]

YList(ss) == [t |-> "list", v |-> ss]

YInt(s) == [t |-> "int", v |-> <<s>>]

YNull == [t |-> "null", v |-> <<>>]

\* yaml.safe_load types a plain (unquoted) scalar by the YAML 1.1 rules:
\* yes/no/on/off/true/false are booleans, null and ~ are None; a decimal
\* number prints as it is written and every other word is a string.  This
\* is str() of the value loaded.
YamlPlainStr(word) ==
    CASE word \in {"Yes", "yes", "On", "on", "true", "True"} -> "True"
      [] word \in {"No", "no", "Off", "off", "false", "False"} -> "False"
      [] word \in {"Null", "null", "~"} -> "None"
      [] OTHER -> word

\* yaml.safe_load of the frontmatter lines: a mapping [t |-> "dict", d |-> f]
\* (a later entry of a key replaces an earlier one), a non-mapping value, or
\* YAMLError.
YamlLoad(ls) ==
    LET n == Len(ls)
        keys == {ls[i].key : i \in {j \in 1..n : ls[j].k = "yaml"}}
        last(key) == CHOOSE i \in 1..n :
                        /\ ls[i].k = "yaml" /\ ls[i].key = key
                        /\ \A j \in (i + 1)..n : ~(ls[j].k = "yaml" /\ ls[j].key = key)
    IN  IF n = 0
        THEN Ok([t |-> "none"])
        ELSE IF \A i \in 1..n : ls[i].k = "yaml"
        THEN Ok([t |-> "dict", d |-> [key \in keys |-> ls[last(key)].val]])
        ELSE IF \A i \in 1..n : ls[i].k = "yamlscalar"
        THEN Ok([t |-> "scalar"])
        ELSE Raise(Exc("YAMLError", "yaml", <<>>, <<>>))

\* models.Metadata(...): name and description are non-empty strings, type is
\* a string, provider a string or None.
NewMetadata(name, type, description, provider) ==
    IF name.t # "str" \/ name.v[1] = ""
    THEN Raise(PydanticError("Metadata", "name"))
    ELSE IF type.t # "str"
    THEN Raise(PydanticError("Metadata", "type"))
    ELSE IF description.t # "str" \/ description.v[1] = ""
    THEN Raise(PydanticError("Metadata", "description"))
    ELSE IF provider.t \notin {"str", "null"}
    THEN Raise(PydanticError("Metadata", "provider"))
    ELSE Ok([name |-> name.v[1], type |-> type.v[1],
             description |-> description.v[1], provider |-> provider])

\* the required keys with Type looked for first
RequiredFieldsTypeFirst == <<"Type", "Name", "Description">>

required_fields == <<"Name", "Type", "Description">>

\* _extract_metadata(content): (metadata, remaining content, raw YAML data)
ExtractMetadata(c) ==
    LET ls == c.lines
        n == Len(ls)
        \* ^---\s*\n(.*?)\n---\s*\n(.*)$ : the closing fence is the first
        \* fence line from the third line on that a newline follows
        closing == {j \in 3..n : ls[j].k = "fm" /\ (j < n \/ c.nl)}
    IN  IF n = 0 \/ ls[1].k # "fm" \/ closing = {}
        THEN Raise(BusyValidationError("Document missing metadata section", <<>>))
        ELSE
        LET j == Min(closing)
            remaining_content == Text(SubSeqFrom(ls, j + 1), c.nl)
            loaded == YamlLoad(SubSeq(ls, 2, j - 1))
        IN  IF ~loaded.ok
            THEN Raise(Exc("BusyValidationError", "Invalid YAML in frontmatter",
                           <<>>, <<loaded.exc>>))
            ELSE IF loaded.val.t # "dict"
            THEN Raise(BusyValidationError("Document metadata must be a YAML dictionary", <<>>))
            ELSE
            LET data == loaded.val.d
                missing == {i \in 1..Len(required_fields) :
                                required_fields[i] \notin DOMAIN data}
            IN  IF missing # {}
                THEN Raise(BusyValidationError("Missing required field",
                                   <<Item("field", required_fields[Min(missing)])>>))
                ELSE
                LET raw == data["Type"]
                    type_value ==
                        IF raw.t = "list"
                        THEN IF raw.v # <<>>
                             THEN YStr("[" \o raw.v[1] \o "]")
                             ELSE YStr("[]")
                        ELSE raw
                    provider == IF "Provider" \in DOMAIN data
                                THEN data["Provider"] ELSE YNull
                    built == NewMetadata(data["Name"], type_value,
                                         data["Description"], provider)
                IN  IF ~built.ok
                    THEN Raise(Exc("BusyValidationError", "Invalid metadata data",
                                   <<>>, <<built.exc>>))
                    ELSE Ok([metadata |-> built.val,
                             remaining_content |-> remaining_content,
                             data |-> data])

----------------------------------------------------------------------------
(* Sections                                                                *)

\* A heading's regular expression ends in \s*\n: the heading line at index i
\* matches only when a newline follows it.
HasNewline(t, i) == i < Len(t.lines) \/ t.nl

\* HEADING\s*\n(.*?)(?=\nSTOP|\Z) with the heading at line i: the lines after
\* the heading, up to the first STOP line that is not the first of them (the
\* newline before the first one belongs to the heading's match).  Content cut
\* at a STOP line loses its last newline.
LazySection(t, i, stop) ==
    LET n == Len(t.lines)
        stops == {e \in (i + 2)..n : t.lines[e].k = stop}
    IN  IF stops # {}
        THEN [lines |-> SubSeq(t.lines, i + 1, Min(stops) - 1), nl |-> FALSE,
              next |-> Min(stops)]
        ELSE [lines |-> SubSeq(t.lines, i + 1, n), nl |-> t.nl /\ i < n,
              next |-> n + 1]

\* HEADING\s*\n(.*)$ : everything after the heading line
RestSection(t, i) == Text(SubSeqFrom(t.lines, i + 1), t.nl /\ i < Len(t.lines))

\* str.strip() of a text of non-blank lines: the last newline goes
Strip(t) == Text(t.lines, FALSE)

IsH2(l) == l.k = "h2"

IsH3(l) == l.k = "h3"

\* re.search for a heading: the first line of t of the level ("h1" for
\* "# Label" or "# [Label]", "h3" for "### ...") whose Label is one of labels,
\* when a newline follows it; 0 if none
FirstLine(t, level, labels) ==
    LET hits == {i \in 1..Len(t.lines) :
                    /\ t.lines[i].k = level
                    /\ t.lines[i].label \in labels
                    /\ HasNewline(t, i)}
    IN  IF hits = {} THEN 0 ELSE Min(hits)

\* line.startswith("-") or line.startswith("*")
IsBulletLine(l) == l.k \in {"bullet", "fm"}

\* line.lstrip("-*").strip(): of --- nothing is left
BulletText(l) == IF l.k = "fm" THEN [g |-> "empty"] ELSE l.text

\* the list items of a sub-section: its bullet lines, markers stripped
RECURSIVE ListItems(_)
ListItems(ls) ==
    IF ls = <<>> THEN <<>>
    ELSE IF IsBulletLine(Head(ls))
    THEN <<BulletText(Head(ls))>> \o ListItems(Tail(ls))
    ELSE ListItems(Tail(ls))

\* _parse_imports(content): every reference-style link line, in order
RECURSIVE ParseImportLines(_)
ParseImportLines(ls) ==
    IF ls = <<>> THEN <<>>
    ELSE IF Head(ls).k = "ref"
    THEN <<[concept_name |-> Head(ls).concept, path |-> Head(ls).path,
            anchor |-> Head(ls).anchor]>> \o ParseImportLines(Tail(ls))
    ELSE ParseImportLines(Tail(ls))

ParseImports(t) == ParseImportLines(t.lines)

\* the text a heading line of level 2 or more names (brackets unwrapped by
\* re.sub(r"^\[(.+)\]$", r"\1", name)): an h2's name, an h3's label as one token
HeadingName(l) == IF l.k = "h2" THEN l.name ELSE <<l.label>>

\* ##\s+([^\n]+)\n(.*?)(?=\n##\s+|\Z) is not anchored: it also matches the
\* last two # of a ### line.  Its stop \n##\s+ is an h2 line only.
IsDefHeading(l) == l.k \in {"h2", "h3"}

RECURSIVE DefinitionsFrom(_, _)
DefinitionsFrom(t, from) ==
    LET n == Len(t.lines)
        hits == {i \in from..n : IsDefHeading(t.lines[i]) /\ HasNewline(t, i)}
    IN  IF hits = {} THEN <<>>
        ELSE LET i == Min(hits)
                 sec == LazySection(t, i, "h2")
             IN  <<[name |-> HeadingName(t.lines[i]), content |-> sec.lines]>>
                 \o DefinitionsFrom(t, sec.next)

LocalDefinitionsHeading == {"Local Definitions"}

\* _parse_local_definitions(content)
ParseLocalDefinitions(t) ==
    LET i == FirstLine(t, "h1", LocalDefinitionsHeading)
    IN  IF i = 0 THEN <<>>
        ELSE DefinitionsFrom(LazySection(t, i, "h1"), 1)

SetupHeading == {"Setup"}

\* _parse_setup(content): <<>> is None, <<lines>> the stripped section
ParseSetup(t) ==
    LET i == FirstLine(t, "h1", SetupHeading)
    IN  IF i = 0 THEN <<>>
        ELSE <<LazySection(t, i, "h1").lines>>

----------------------------------------------------------------------------
(* Operations                                                              *)

\* re.findall(r"\[([^\]]+)\]", line): the bracketed substrings of one line,
\* each a name (a sequence of strings)
Brackets(l) ==
    CASE l.k = "num" -> l.refs
      [] l.k = "ref" -> <<<<l.concept>>>>
      [] l.k \in {"h1", "h3"} /\ l.br -> <<<<l.label>>>>
      [] l.k = "h2" /\ l.br -> <<l.name>>
      [] OTHER -> <<>>

RECURSIVE BracketsOf(_)
BracketsOf(ls) == IF ls = <<>> THEN <<>> ELSE Brackets(Head(ls)) \o BracketsOf(Tail(ls))

\* models.Step(...): step_number >= 1, instruction non-empty.  <<>> stands
\* for operation_references = None.
NewStep(step_number, instruction, operation_references) ==
    IF step_number < 1
    THEN Raise(PydanticError("Step", "step_number"))
    ELSE Ok([step_number |-> step_number, instruction |-> instruction,
             operation_references |-> operation_references])

\* the steps of a Steps text numbered by their place in the list, from k on
RECURSIVE StepsNumberedFrom(_, _)
StepsNumberedFrom(ls, k) ==
    LET n == Len(ls)
        starts == {i \in 1..n : ls[i].k = "num"}
    IN  IF starts = {} THEN Ok(<<>>)
        ELSE
        LET i == Min(starts)
            later == {j \in (i + 1)..n : ls[j].k = "num"}
            end == IF later = {} THEN n ELSE Min(later) - 1
            instruction == SubSeq(ls, i, end)
            step == NewStep(k, instruction, BracketsOf(instruction))
            rest == StepsNumberedFrom(SubSeqFrom(ls, end + 1), k + 1)
        IN  IF ~rest.ok THEN rest ELSE Ok(<<step.val>> \o rest.val)

ParseStepsRenumbered(ls) == StepsNumberedFrom(ls, 1)

\* (\d+)\.\s+([^\n]+(?:\n(?!\d+\.)[^\n]+)*) over the Steps text: a numbered
\* line starts a step and every following line that is not numbered
\* continues its instruction.
RECURSIVE ParseSteps(_)
ParseSteps(ls) ==
    LET n == Len(ls)
        starts == {i \in 1..n : ls[i].k = "num"}
    IN  IF starts = {} THEN Ok(<<>>)
        ELSE
        LET i == Min(starts)
            later == {j \in (i + 1)..n : ls[j].k = "num"}
            end == IF later = {} THEN n ELSE Min(later) - 1
            instruction == SubSeq(ls, i, end)
            op_refs == BracketsOf(instruction)
            step == NewStep(ls[i].n, instruction, op_refs)
            rest == ParseSteps(SubSeqFrom(ls, end + 1))
        IN  IF ~step.ok THEN step
            ELSE IF ~rest.ok THEN rest
            ELSE Ok(<<step.val>> \o rest.val)

InputsHeading == {"Input", "Inputs"}

OutputsHeading == {"Output", "Outputs"}

StepsHeading == {"Step", "Steps"}

ChecklistHeading == {"Checklist"}

ExamplesHeading == {"Example", "Examples"}

\* ###\s+LABEL\s*\n(.*?)(?=\n###\s+|\Z) in an item's content: the lines of
\* the first sub-section so headed, <<>> when there is none
SubSection(t, labels) ==
    LET i == FirstLine(t, "h3", labels)
    IN  IF i = 0 THEN <<>> ELSE LazySection(t, i, "h3").lines

\* ###\s+(?:\[Checklist\]|Checklist)\s*\n(.*?)(?=\n###\s+|\n##\s+|\Z): a ##
\* line (one inside a code fence) ends the checklist as a ### line does
ChecklistSection(t) ==
    LET i == FirstLine(t, "h3", ChecklistHeading)
        n == Len(t.lines)
        stops == {e \in (i + 2)..n : t.lines[e].k \in {"h2", "h3"}}
    IN  IF i = 0 THEN <<>>
        ELSE SubSeq(t.lines, i + 1, IF stops = {} THEN n ELSE Min(stops) - 1)

\* section_content[start_pos:end_pos] of the item headed at line i, whose
\* content runs to line last; the heading line is removed only when a
\* newline follows it (re.sub(r"^##\s+[^\n]+\n", "", ..., count=1)); strip()
ItemContent(sec, i, last) ==
    IF HasNewline(sec, i)
    THEN Text(SubSeq(sec.lines, i + 1, last), FALSE)
    ELSE Text(SubSeq(sec.lines, i, last), FALSE)

IsFenceLine(l) == l.k = "fence"

\* _find_code_fence_regions(content): ^```[^\n]*\n(.*?)^``` matches from a
\* line that starts with ``` to the next line that does, and finditer resumes
\* after the closing one, so the fence lines are paired off in order,
\* whatever follows the backticks.  A region is <<first line, last line>>.
RECURSIVE FindCodeFenceRegions(_, _)
FindCodeFenceRegions(ls, from) ==
    LET opens == {i \in from..Len(ls) : IsFenceLine(ls[i])}
    IN  IF opens = {} THEN {}
        ELSE
        LET start == Min(opens)
            closes == {j \in (start + 1)..Len(ls) : IsFenceLine(ls[j])}
        IN  IF closes = {} THEN {}
            ELSE {<<start, Min(closes)>>}
                 \cup FindCodeFenceRegions(ls, Min(closes) + 1)

\* _is_position_in_code_fence(pos, fence_regions), pos the start of a line
IsPositionInCodeFence(pos, fence_regions) ==
    \E r \in fence_regions : r[1] <= pos /\ pos <= r[2]

\* the (position, name) boundaries: the ## lines of the section that are in
\* no code fence region
Boundaries(sec) ==
    LET fence_regions == FindCodeFenceRegions(sec.lines, 1)
    IN  {i \in 1..Len(sec.lines) :
            IsH2(sec.lines[i]) /\ ~IsPositionInCodeFence(i, fence_regions)}

\* the last line of the item that starts at boundary i
ItemEnd(sec, i) ==
    LET later == {j \in Boundaries(sec) : j > i}
    IN  IF later = {} THEN Len(sec.lines) ELSE Min(later) - 1

\* one Operation from its content
ParseOperation(name, op_content) ==
    LET inputs == ListItems(SubSection(op_content, InputsHeading))
        outputs == ListItems(SubSection(op_content, OutputsHeading))
        steps == ParseSteps(SubSection(op_content, StepsHeading))
        items == ListItems(ChecklistSection(op_content))
    IN  IF ~steps.ok THEN steps
        ELSE Ok([name |-> name, inputs |-> inputs, outputs |-> outputs,
                 steps |-> steps.val,
                 checklist |-> IF items # <<>> THEN <<items>> ELSE <<>>])

RECURSIVE OperationsFrom(_, _)
OperationsFrom(sec, from) ==
    LET later == {i \in Boundaries(sec) : i >= from}
    IN  IF later = {} THEN Ok(<<>>)
        ELSE
        LET i == Min(later)
            last == ItemEnd(sec, i)
            op == ParseOperation(sec.lines[i].name, ItemContent(sec, i, last))
            rest == OperationsFrom(sec, last + 1)
        IN  IF ~op.ok THEN op
            ELSE IF ~rest.ok THEN rest
            ELSE Ok(<<op.val>> \o rest.val)

OperationsHeading == {"Operations"}

\* _parse_operations(content)
ParseOperations(t) ==
    LET i == FirstLine(t, "h1", OperationsHeading)
    IN  IF i = 0 THEN Ok(<<>>)
        ELSE OperationsFrom(RestSection(t, i), 1)

----------------------------------------------------------------------------
(* Tools                                                                   *)

\* ^(.*?)(?=\n###\s+|\Z) : the lines before the first ### line that is not
\* the first line
Description(t) ==
    LET stops == {e \in 2..Len(t.lines) : IsH3(t.lines[e])}
    IN  IF stops = {} THEN t.lines ELSE SubSeq(t.lines, 1, Min(stops) - 1)

\* one Tool from its content.  No #### line is modelled, so no provider is
\* ever found and providers is None.
ParseTool(name, tool_content) ==
    LET description == Description(tool_content)
        inputs == ListItems(SubSection(tool_content, InputsHeading))
        outputs == ListItems(SubSection(tool_content, OutputsHeading))
        examples == ListItems(SubSection(tool_content, ExamplesHeading))
    IN  IF description = <<>>
        THEN Raise(BusyValidationError("Tool missing description",
                                       <<Item("tool", name)>>))
        ELSE Ok([name |-> name, description |-> description,
                 inputs |-> inputs, outputs |-> outputs,
                 examples |-> IF examples # <<>> THEN <<examples>> ELSE <<>>,
                 providers |-> <<>>])

RECURSIVE ToolsFrom(_, _)
ToolsFrom(sec, from) ==
    LET later == {i \in Boundaries(sec) : i >= from}
    IN  IF later = {} THEN Ok(<<>>)
        ELSE
        LET i == Min(later)
            last == ItemEnd(sec, i)
            tool == ParseTool(sec.lines[i].name, ItemContent(sec, i, last))
            rest == ToolsFrom(sec, last + 1)
        IN  IF ~tool.ok THEN tool
            ELSE IF ~rest.ok THEN rest
            ELSE Ok(<<tool.val>> \o rest.val)

\* tools_pattern = r"#\s+(?:\[Operations?\]|Operations?)\s*\n(.*)$"
ToolsHeading == {"Operation", "Operations"}

\* _parse_tools_section(content)
ParseToolsSection(t) ==
    LET i == FirstLine(t, "h1", ToolsHeading)
    IN  IF i = 0 THEN Ok(<<>>)
        ELSE ToolsFrom(RestSection(t, i), 1)

----------------------------------------------------------------------------
(* Triggers                                                                *)
(* The text of a bullet is a record of what the two grammars see in it:    *)
(*   [g |-> "alarm", time, op]              set alarm for <time> to run <op>*)
(*   [g |-> "event", event_type, from, op]  when <type> [from <f>], run <op>*)
(*   [g |-> "other"]                        neither                        *)
(*   [g |-> "empty"]                        nothing but the marker         *)
(* A time phrase is [clock, days]: clock is <<>> when the phrase has no    *)
(* digit, else <<[hour, minute, am_pm]>> as (\d{1,2})(?::(\d{2}))?\s*(am|pm)?*)
(* first matches: minute <<>> or <<mm>>, am_pm "", "am" or "pm"; days is   *)
(* the set of weekday names the lower-cased phrase contains.               *)

Weekdays == <<"monday", "tuesday", "wednesday", "thursday", "friday",
              "saturday", "sunday">>

\* cron digits that number Sunday 7
CronDaySundayLast == <<"1", "2", "3", "4", "5", "6", "7">>

CronDay == <<"1", "2", "3", "4", "5", "6", "0">>

\* _parse_time_spec(time_spec): the cron fields minute, hour, day of week
ParseTimeSpec(time_spec) ==
    IF time_spec.clock = <<>>
    THEN Raise(ValueError("Cannot parse time"))
    ELSE
    LET m == time_spec.clock[1]
        minute == IF m.minute # <<>> THEN m.minute[1] ELSE 0
        hour == IF m.am_pm = "pm" /\ m.hour # 12 THEN m.hour + 12
                ELSE IF m.am_pm = "am" /\ m.hour = 12 THEN 0
                ELSE m.hour
        named == {i \in 1..Len(Weekdays) : Weekdays[i] \in time_spec.days}
        day_of_week == IF named = {} THEN "*" ELSE CronDay[Min(named)]
    IN  Ok([minute |-> minute, hour |-> hour, day_of_week |-> day_of_week])

\* a filter keyed "sender"
ParseFilterSpecSender(filter_spec) == [sender |-> filter_spec]

\* _parse_filter_spec(filter_spec)
ParseFilterSpec(filter_spec) == [from |-> filter_spec]

\* _parse_trigger_declaration(text)
ParseTriggerDeclaration(text) ==
    IF text.g = "alarm"
    THEN LET schedule == ParseTimeSpec(text.time)
         IN  IF ~schedule.ok THEN schedule
             ELSE Ok([raw_text |-> text, trigger_type |-> "alarm",
                      schedule |-> <<schedule.val>>, event_type |-> <<>>,
                      filter |-> <<>>, operation |-> text.op,
                      queue_when_paused |-> TRUE])
    ELSE IF text.g = "event"
    THEN Ok([raw_text |-> text, trigger_type |-> "event",
             schedule |-> <<>>, event_type |-> <<text.event_type>>,
             filter |-> IF text.from # <<>>
                        THEN <<ParseFilterSpec(text.from[1])>> ELSE <<>>,
             operation |-> text.op, queue_when_paused |-> TRUE])
    ELSE Raise(ValueError("Unrecognized trigger format"))

\* a loop that skips the bullets it cannot parse
RECURSIVE TriggersOfSkipping(_)
TriggersOfSkipping(ls) ==
    IF ls = <<>> THEN Ok(<<>>)
    ELSE IF ~IsBulletLine(Head(ls)) \/ BulletText(Head(ls)).g = "empty"
    THEN TriggersOfSkipping(Tail(ls))
    ELSE
    LET trigger == ParseTriggerDeclaration(BulletText(Head(ls)))
        rest == TriggersOfSkipping(Tail(ls))
    IN  IF ~trigger.ok THEN rest
        ELSE Ok(<<trigger.val>> \o rest.val)

\* the loop of _parse_triggers over the section's lines
RECURSIVE TriggersOf(_)
TriggersOf(ls) ==
    IF ls = <<>> THEN Ok(<<>>)
    ELSE IF ~IsBulletLine(Head(ls)) \/ BulletText(Head(ls)).g = "empty"
    THEN TriggersOf(Tail(ls))
    ELSE
    LET trigger_text == BulletText(Head(ls))
        trigger == ParseTriggerDeclaration(trigger_text)
        rest == TriggersOf(Tail(ls))
    IN  IF ~trigger.ok
        THEN Raise(Exc("BusyValidationError", "Invalid trigger declaration",
                       <<Item("trigger", trigger_text)>>, <<trigger.exc>>))
        ELSE IF ~rest.ok THEN rest
        ELSE Ok(<<trigger.val>> \o rest.val)

TriggersHeading == {"Trigger", "Triggers"}

\* _parse_triggers(content).  In
\* #\s+(?:\[Triggers?\]|Triggers?)\s*\n(.*)(?=\n#\s+[^\n]+\n|\Z) the greedy
\* (.*) runs to the end of the content, where \Z holds.
ParseTriggers(t) ==
    LET i == FirstLine(t, "h1", TriggersHeading)
    IN  IF i = 0 THEN Ok(<<>>)
        ELSE TriggersOf(RestSection(t, i).lines)

\* The frontmatter value of Triggers is [t |-> "triggers", v |-> <<>>,
\* entries |-> <<entry, ...>>] when it is a YAML sequence; an entry is
\* [dict |-> BOOLEAN, event_type, filters, queue_when_paused], each a
\* value [t, v] with t = "absent" for a key not given, "map" for a mapping
\* of strings to strings and "mapx" for any other mapping.
YAbsent == [t |-> "absent", v |-> <<>>]

\* Python truth of a YAML value
Truthy(y) ==
    CASE y.t \in {"absent", "null"} -> FALSE
      [] y.t = "str" -> y.v[1] # ""
      [] y.t = "int" -> y.v[1] # "0"
      [] y.t = "bool" -> y.v[1] = "True"
      [] y.t = "triggers" -> y.entries # <<>>
      [] OTHER -> y.v # <<>>

\* models.Trigger(...) as _parse_frontmatter_triggers calls it: event_type
\* Optional[str], filter Optional[dict[str, str]], operation a non-empty
\* string, queue_when_paused bool
NewFrontmatterTrigger(event_type, filters, operation, queue_when_paused) ==
    IF event_type.t # "str"
    THEN Raise(PydanticError("Trigger", "event_type"))
    ELSE IF filters.t \notin {"absent", "null", "map"}
    THEN Raise(PydanticError("Trigger", "filter"))
    ELSE IF queue_when_paused.t \notin {"absent", "bool"}
    THEN Raise(PydanticError("Trigger", "queue_when_paused"))
    ELSE Ok([raw_text |-> [g |-> "frontmatter", event_type |-> event_type.v[1]],
             trigger_type |-> "event", schedule |-> <<>>,
             event_type |-> <<event_type.v[1]>>,
             filter |-> IF filters.t = "map" THEN <<filters.v>> ELSE <<>>,
             operation |-> operation,
             queue_when_paused |-> IF queue_when_paused.t = "absent"
                                   THEN TRUE
                                   ELSE queue_when_paused.v[1] = "True"])

RECURSIVE FrontmatterTriggersOf(_, _)
FrontmatterTriggersOf(entries, metadata) ==
    IF entries = <<>> THEN Ok(<<>>)
    ELSE
    LET trigger_dict == Head(entries)
    IN  IF ~trigger_dict.dict
        THEN Raise(BusyValidationError(
                     "Each trigger in frontmatter must be a dictionary", <<>>))
        ELSE IF ~Truthy(trigger_dict.event_type)
        THEN Raise(BusyValidationError(
                     "Frontmatter trigger missing required field",
                     <<Item("field", "event_type")>>))
        ELSE IF Truthy(trigger_dict.filters)
                /\ trigger_dict.filters.t \notin {"map", "mapx"}
        THEN Raise(BusyValidationError("Trigger filters must be a dictionary", <<>>))
        ELSE
        LET trigger == NewFrontmatterTrigger(trigger_dict.event_type,
                           trigger_dict.filters, metadata.name,
                           trigger_dict.queue_when_paused)
            rest == FrontmatterTriggersOf(Tail(entries), metadata)
        IN  IF ~trigger.ok THEN trigger
            ELSE IF ~rest.ok THEN rest
            ELSE Ok(<<trigger.val>> \o rest.val)

\* _parse_frontmatter_triggers(frontmatter_data, metadata)
ParseFrontmatterTriggers(frontmatter_data, metadata) ==
    LET frontmatter_triggers ==
            IF "Triggers" \in DOMAIN frontmatter_data
            THEN frontmatter_data["Triggers"] ELSE YAbsent
    IN  IF ~Truthy(frontmatter_triggers) THEN Ok(<<>>)
        ELSE IF frontmatter_triggers.t \notin {"triggers", "list"}
        THEN Raise(BusyValidationError(
                     "Frontmatter Triggers field must be a list", <<>>))
        ELSE IF frontmatter_triggers.t = "list"
        THEN \* a sequence of scalars: its first entry is no dictionary
             Raise(BusyValidationError(
                     "Each trigger in frontmatter must be a dictionary", <<>>))
        ELSE FrontmatterTriggersOf(frontmatter_triggers.entries, metadata)

----------------------------------------------------------------------------
(* The document assembler                                                  *)

\* a branch test that never takes the tool branch
IsToolTypeNever(type) == FALSE

\* a comparison of the type tag that ignores case
IsToolTypeAnyCase(type) == type \in {"[Tool]", "[tool]"}

\* if metadata.type == "[Tool]"
IsToolType(type) == type = "[Tool]"

\* a tool branch that accepts an empty tools list
AtLeastOneToolUnchecked(tools) == Ok(tools)

\* if not tools: raise BusyValidationError(...)
AtLeastOneTool(tools) ==
    IF tools = <<>>
    THEN Raise(BusyValidationError(
                 "Tool document must contain at least one tool definition", <<>>))
    ELSE Ok(tools)

\* markdown triggers put before the frontmatter ones
CombineTriggersMarkdownFirst(frontmatter_triggers, markdown_triggers) ==
    markdown_triggers \o frontmatter_triggers

\* triggers = frontmatter_triggers + markdown_triggers
CombineTriggers(frontmatter_triggers, markdown_triggers) ==
    frontmatter_triggers \o markdown_triggers

\* the body of parse_document's try block
ParseDocumentTry(c) ==
    LET extracted == ExtractMetadata(c)
    IN  IF ~extracted.ok THEN extracted
        ELSE
        LET metadata == extracted.val.metadata
            remaining_content == extracted.val.remaining_content
            frontmatter_data == extracted.val.data
            imports == ParseImports(remaining_content)
            definitions == ParseLocalDefinitions(remaining_content)
            setup == ParseSetup(remaining_content)
            operations == ParseOperations(remaining_content)
        IN  IF ~operations.ok THEN operations
            ELSE IF IsToolType(metadata.type)
            THEN LET parsed == ParseToolsSection(remaining_content)
                     tools == IF parsed.ok THEN AtLeastOneTool(parsed.val)
                              ELSE parsed
                 IN  IF ~tools.ok THEN tools
                     ELSE Ok([class |-> "ToolDocument",
                              metadata |-> metadata,
                              imports |-> imports,
                              definitions |-> definitions,
                              setup |-> setup,
                              operations |-> operations.val,
                              tools |-> tools.val,
                              triggers |-> <<>>])
            ELSE
            LET frontmatter_triggers ==
                    ParseFrontmatterTriggers(frontmatter_data, metadata)
                markdown_triggers == ParseTriggers(remaining_content)
            IN  IF ~frontmatter_triggers.ok THEN frontmatter_triggers
                ELSE IF ~markdown_triggers.ok THEN markdown_triggers
                ELSE Ok([class |-> "BusyDocument",
                         metadata |-> metadata,
                         imports |-> imports,
                         definitions |-> definitions,
                         setup |-> setup,
                         operations |-> operations.val,
                         triggers |-> CombineTriggers(frontmatter_triggers.val,
                                                      markdown_triggers.val)])

\* except clauses without the one that re-raises the domain errors
ParseDocumentExceptAny(r) ==
    IF r.ok THEN r
    ELSE Raise(Exc("BusyParseError", "Failed to parse BUSY document",
                   <<>>, <<r.exc>>))

\* the except clauses of parse_document
ParseDocumentExcept(r) ==
    IF r.ok THEN r
    ELSE IF r.exc.cls \in {"BusyValidationError", "BusyImportError"}
    THEN r
    ELSE Raise(Exc("BusyParseError", "Failed to parse BUSY document",
                   <<>>, <<r.exc>>))

\* parse_document(content)
ParseDocument(c) == ParseDocumentExcept(ParseDocumentTry(c))

----------------------------------------------------------------------------
(* Paths                                                                   *)
(* A path is the sequence of its segments; "." and ".." are segments.  The *)
(* variable fs maps the resolved path of every file to its text; every     *)
(* proper prefix of such a path is a directory.                            *)

\* base_path / import_ref.path
Join(base_path, path) == base_path \o path

\* Path.resolve(): "." is dropped and ".." removes the segment before it
RECURSIVE Normalize(_, _)
Normalize(done, todo) ==
    IF todo = <<>> THEN done
    ELSE IF Head(todo) = "." THEN Normalize(done, Tail(todo))
    ELSE IF Head(todo) = ".."
    THEN Normalize(IF done = <<>> THEN <<>> ELSE SubSeq(done, 1, Len(done) - 1),
                   Tail(todo))
    ELSE Normalize(Append(done, Head(todo)), Tail(todo))

PathResolve(path) == Normalize(<<>>, path)

\* import_path.parent
Parent(path) == SubSeq(path, 1, Len(path) - 1)

IsFile(files, key) == key \in DOMAIN files

IsDirectory(files, key) ==
    \E f \in DOMAIN files : Len(f) > Len(key) /\ SubSeq(f, 1, Len(key)) = key

\* import_path.exists()
PathExists(files, path) ==
    LET key == PathResolve(path)
    IN  IsFile(files, key) \/ IsDirectory(files, key)

\* import_path.read_text(): the text of a file; a directory cannot be read
ReadText(files, path) ==
    LET key == PathResolve(path)
    IN  IF IsFile(files, key) THEN Ok(files[key])
        ELSE Raise(Exc("IsADirectoryError", "Is a directory",
                       <<Item("path", path)>>, <<>>))

----------------------------------------------------------------------------
(* The import resolver                                                     *)

\* str.lower() of one character
LowerChar(ch) ==
    CASE ch = "A" -> "a"
      [] ch = "B" -> "b"
      [] OTHER -> ch

\* name.lower()
Lower(name) == [i \in 1..Len(name) |-> LowerChar(name[i])]

\* name.replace(" ", "-")
Hyphenate(name) == [i \in 1..Len(name) |-> IF name[i] = " " THEN "-" ELSE name[i]]

\* the name with its spaces replaced and its case kept
AnchorOfCased(name) == Hyphenate(name)

\* op.name.lower().replace(" ", "-")
AnchorOf(name) == Hyphenate(Lower(name))

\* the anchor validation of resolve_imports: anchor_found
AnchorFound(imported_doc, anchor) ==
    \/ \E i \in 1..Len(imported_doc.operations) :
          AnchorOf(imported_doc.operations[i].name) = Lower(anchor)
    \/ \E i \in 1..Len(imported_doc.definitions) :
          AnchorOf(imported_doc.definitions[i].name) = Lower(anchor)

\* resolved.setdefault(key, value): an entry already there stays
PutIfAbsent(d, key, value) ==
    [x \in DOMAIN d \cup {key} |-> IF x \in DOMAIN d THEN d[x] ELSE value]

\* resolved[key] = value
Put(d, key, value) ==
    [x \in DOMAIN d \cup {key} |-> IF x = key THEN value ELSE d[x]]

\* an update that keeps the entries the mapping already holds
UpdateKeeping(d, e) ==
    [x \in DOMAIN d \cup DOMAIN e |-> IF x \in DOMAIN d THEN d[x] ELSE e[x]]

\* resolved.update(nested_resolved)
Update(d, e) ==
    [x \in DOMAIN d \cup DOMAIN e |-> IF x \in DOMAIN e THEN e[x] ELSE d[x]]

\* CheckImport without the existence check
CheckImportUnchecked(files, seen, base_path, import_ref) ==
    LET import_path == Join(base_path, import_ref.path)
        import_key == PathResolve(import_path)
    IN  IF import_key \in seen
        THEN Raise(BusyImportError("Circular import detected",
                                   <<Item("path", import_ref.path)>>))
        ELSE Ok(import_key)

\* CheckImport without the cycle check
CheckImportNoCycle(files, seen, base_path, import_ref) ==
    LET import_path == Join(base_path, import_ref.path)
        import_key == PathResolve(import_path)
    IN  IF ~PathExists(files, import_path)
        THEN Raise(BusyImportError("Import path not found",
                                   <<Item("path", import_ref.path)>>))
        ELSE Ok(import_key)

\* The checks of one loop iteration before the try block: the key to mark
\* as visited, or the exception raised.
CheckImport(files, seen, base_path, import_ref) ==
    LET import_path == Join(base_path, import_ref.path)
        import_key == PathResolve(import_path)
    IN  IF ~PathExists(files, import_path)
        THEN Raise(BusyImportError("Import path not found",
                                   <<Item("path", import_ref.path)>>))
        ELSE IF import_key \in seen
        THEN Raise(BusyImportError("Circular import detected",
                                   <<Item("path", import_ref.path)>>))
        ELSE Ok(import_key)

\* the anchor validation: the parsed document, or the exception raised
ValidateAnchor(import_ref, imported_doc) ==
    IF ~imported_doc.ok THEN imported_doc
    ELSE IF import_ref.anchor # <<>>
            /\ ~AnchorFound(imported_doc.val, import_ref.anchor)
    THEN Raise(BusyImportError("Anchor not found",
                               <<Item("anchor", import_ref.anchor),
                                 Item("path", import_ref.path)>>))
    ELSE imported_doc

\* imported_doc = parse_document(imported_content), then the validation
ParseImported(import_ref, imported_content) ==
    IF ~imported_content.ok THEN imported_content
    ELSE ValidateAnchor(import_ref, ParseDocument(imported_content.val))

\* The try block up to resolved[import_ref.concept_name] = imported_doc: the
\* document to store, or the exception raised inside the block.
LoadImport(files, base_path, import_ref) ==
    ParseImported(import_ref, ReadText(files, Join(base_path, import_ref.path)))

\* an except clause that names BusyValidationError only
ImportExceptValidation(e, import_ref) ==
    IF e.cls = "BusyValidationError"
    THEN Exc("BusyImportError", "Failed to parse imported document",
             <<Item("path", import_ref.path)>>, <<e>>)
    ELSE e

\* except (BusyParseError, BusyValidationError) as e: raise BusyImportError
ImportExcept(e, import_ref) ==
    IF e.cls \in {"BusyParseError", "BusyValidationError"}
    THEN Exc("BusyImportError", "Failed to parse imported document",
             <<Item("path", import_ref.path)>>, <<e>>)
    ELSE e

\* a finally clause that leaves the key in the set
FinallyKeeps(seen, import_key) == seen

\* finally: _visited.discard(import_key)
Finally(seen, import_key) == seen \ {import_key}

\* A frame is one call of resolve_imports in progress:
\*   imports, base_path   document.imports and base_path
\*   resolved             the local dict
\*   i                    the index of the import the loop is at
\*   at                   "for" (between iterations), "try" (import_key
\*                        marked, target not read yet), "stored" (document
\*                        stored, about to recurse), "call" (in the
\*                        recursive call), "back" (the call has returned)
\*   import_key           the key marked by the iteration in progress
\*   imported_doc         the document it parsed
\*   nested_resolved      what the recursive call returned
\*   entered              _visited as the call found it
NoDoc == <<>>

NewFrame(imports, base_path, seen) ==
    [imports |-> imports, base_path |-> base_path, resolved |-> <<>>,
     i |-> 1, at |-> "for", import_key |-> <<>>, imported_doc |-> NoDoc,
     nested_resolved |-> <<>>, entered |-> seen]

Top == stack[Len(stack)]

Callers == SubSeq(stack, 1, Len(stack) - 1)

SetTop(frame) == [stack EXCEPT ![Len(stack)] = frame]

ParseIdle == content = <<>> /\ outcome = <<>>

IsCycleReport(e) == e.what = "Circular import detected"

\* BeginImport with an import that is already being resolved passed over
\* instead of reported
BeginImportSkipping ==
    /\ status = "running"
    /\ Top.at = "for"
    /\ Top.i <= Len(Top.imports)
    /\ LET checked == CheckImport(fs, visited, Top.base_path, Top.imports[Top.i])
       IN  IF checked.ok
           THEN /\ visited' = visited \cup {checked.val}
                /\ stack' = SetTop([Top EXCEPT !.at = "try",
                                               !.import_key = checked.val])
                /\ UNCHANGED <<status, result>>
           ELSE IF IsCycleReport(checked.exc)
           THEN /\ stack' = SetTop([Top EXCEPT !.i = Top.i + 1])
                /\ UNCHANGED <<status, result, visited>>
           ELSE /\ status' = "raising"
                /\ result' = checked.exc
                /\ UNCHANGED <<stack, visited>>
    /\ UNCHANGED <<content, outcome, fs, root, reads>>

\* for import_ref in document.imports: the existence check, the cycle check
\* and _visited.add(import_key)
BeginImport ==
    /\ status = "running"
    /\ Top.at = "for"
    /\ Top.i <= Len(Top.imports)
    /\ LET checked == CheckImport(fs, visited, Top.base_path, Top.imports[Top.i])
       IN  IF checked.ok
           THEN /\ visited' = visited \cup {checked.val}
                /\ stack' = SetTop([Top EXCEPT !.at = "try",
                                               !.import_key = checked.val])
                /\ UNCHANGED <<status, result>>
           ELSE /\ status' = "raising"
                /\ result' = checked.exc
                /\ UNCHANGED <<stack, visited>>
    /\ UNCHANGED <<content, outcome, fs, root, reads>>

\* the outcome of the try block's first half: the document is stored, or
\* the exception is on its way to the except and finally clauses
StoreImport(import_ref, loaded) ==
    /\ reads' = Append(reads, Top.import_key)
    /\ IF loaded.ok
       THEN /\ stack' = SetTop([Top EXCEPT
                   !.at = "stored",
                   !.imported_doc = loaded.val,
                   !.resolved = Put(Top.resolved, import_ref.concept_name,
                                    loaded.val)])
            /\ UNCHANGED <<status, result>>
       ELSE /\ status' = "raising"
            /\ result' = loaded.exc
            /\ UNCHANGED stack

\* read_text, parse_document, the anchor validation and the store
ReadImport ==
    /\ status = "running"
    /\ Top.at = "try"
    /\ StoreImport(Top.imports[Top.i],
                   LoadImport(fs, Top.base_path, Top.imports[Top.i]))
    /\ UNCHANGED <<content, outcome, fs, root, visited>>

\* nested_resolved = resolve_imports(imported_doc, import_path.parent, _visited)
Recurse ==
    /\ status = "running"
    /\ Top.at = "stored"
    /\ LET import_path == Join(Top.base_path, Top.imports[Top.i].path)
       IN  stack' = Append(SetTop([Top EXCEPT !.at = "call"]),
                           NewFrame(Top.imported_doc.imports, Parent(import_path),
                                    visited))
    /\ UNCHANGED <<content, outcome, fs, root, visited, reads, status, result>>

\* return resolved: to the caller of the top-level call, or into the
\* iteration that made the call
Return ==
    /\ status = "running"
    /\ Top.at = "for"
    /\ Top.i > Len(Top.imports)
    /\ IF Len(stack) = 1
       THEN /\ status' = "returned"
            /\ result' = Top.resolved
            /\ stack' = <<>>
       ELSE /\ stack' = Append(SubSeq(stack, 1, Len(stack) - 2),
                               [stack[Len(stack) - 1] EXCEPT
                                  !.at = "back",
                                  !.nested_resolved = Top.resolved])
            /\ UNCHANGED <<status, result>>
    /\ UNCHANGED <<content, outcome, fs, root, visited, reads>>

\* Merge without the discard of the finally clause
MergeForgetting ==
    /\ status = "running"
    /\ Top.at = "back"
    /\ stack' = SetTop([Top EXCEPT
                   !.resolved = Update(Top.resolved, Top.nested_resolved),
                   !.i = Top.i + 1,
                   !.at = "for",
                   !.import_key = <<>>,
                   !.imported_doc = NoDoc,
                   !.nested_resolved = <<>>])
    /\ UNCHANGED <<content, outcome, fs, root, reads, status, result, visited>>

\* resolved.update(nested_resolved), the finally clause, the next import
Merge ==
    /\ status = "running"
    /\ Top.at = "back"
    /\ stack' = SetTop([Top EXCEPT
                   !.resolved = Update(Top.resolved, Top.nested_resolved),
                   !.i = Top.i + 1,
                   !.at = "for",
                   !.import_key = <<>>,
                   !.imported_doc = NoDoc,
                   !.nested_resolved = <<>>])
    /\ visited' = Finally(visited, Top.import_key)
    /\ UNCHANGED <<content, outcome, fs, root, reads, status, result>>

\* An exception leaves the top frame: raised inside its try block it passes
\* the except clause and the finally clause first; then the call ends and
\* the exception is in the caller, inside the caller's try block.
Propagate ==
    /\ status = "raising"
    /\ IF Top.at = "for"
       THEN UNCHANGED <<result, visited>>
       ELSE /\ result' = ImportExcept(result, Top.imports[Top.i])
            /\ visited' = Finally(visited, Top.import_key)
    /\ stack' = Callers
    /\ status' = IF Len(stack) = 1 THEN "raised" ELSE "raising"
    /\ UNCHANGED <<content, outcome, fs, root, reads>>

----------------------------------------------------------------------------
(* Texts handed to parse_document                                          *)

MaxBodyLen == 4

Fm == [k |-> "fm"]

Yaml(key, val) == [k |-> "yaml", key |-> key, val |-> val]

H1(label) == [k |-> "h1", label |-> label, br |-> FALSE]

H2(name) == [k |-> "h2", name |-> name, br |-> FALSE]

H3(label) == [k |-> "h3", label |-> label, br |-> FALSE]

Num(n) == [k |-> "num", n |-> n, text |-> "x", refs |-> <<>>]

Bullet(text) == [k |-> "bullet", text |-> text]

Plain == [k |-> "text"]

Fence(info) == [k |-> "fence", info |-> info]

\* the frontmatter line Type: [word], which YAML reads as a sequence of one
\* plain scalar, or Type: "[word]", which it reads as a string; written is
\* the bracketed tag as the author wrote it
TypeLine(word, quoted) ==
    [k |-> "yaml", key |-> "Type",
     val |-> IF quoted THEN YStr("[" \o word \o "]")
             ELSE YList(<<YamlPlainStr(word)>>),
     written |-> "[" \o word \o "]"]

Clock(hour, minute, am_pm) == <<[hour |-> hour, minute |-> minute, am_pm |-> am_pm]>>

Alarm(clock, days) ==
    [g |-> "alarm", time |-> [clock |-> clock, days |-> days], op |-> "Run"]

Event(from) ==
    [g |-> "event", event_type |-> "mail.received", from |-> from, op |-> "Run"]

Junk == [g |-> "other"]

\* the name "A b"
NameAb == <<"A", " ", "b">>

TypeValues == {YStr("[Tool]"), YList(<<"Tool">>), YStr("[Operation]"),
               YList(<<"Operation">>), YStr("[tool]"), YStr("Tool"),
               YList(<<>>), YInt("5")}

FmEntry == [dict |-> TRUE, event_type |-> YStr("mail.received"),
            filters |-> YAbsent, queue_when_paused |-> YAbsent]

\* a second entry: another event, a filter mapping, queue_when_paused: false
FmEntryFiltered ==
    [dict |-> TRUE, event_type |-> YStr("file.changed"),
     filters |-> [t |-> "map", v |-> <<"from", "*@lead.com">>],
     queue_when_paused |-> [t |-> "bool", v |-> <<"False">>]]

TriggerValues == {[t |-> "triggers", v |-> <<>>, entries |-> <<FmEntry>>],
                  [t |-> "triggers", v |-> <<>>,
                   entries |-> <<FmEntryFiltered, FmEntry>>],
                  [t |-> "triggers", v |-> <<>>,
                   entries |-> <<[FmEntry EXCEPT !.event_type = YAbsent]>>],
                  [t |-> "triggers", v |-> <<>>,
                   entries |-> <<[FmEntry EXCEPT !.event_type = YInt("5")]>>],
                  YStr("daily")}

\* --- / the entries / ---
Fenced(entries) == <<Fm>> \o entries \o <<Fm>>

RECURSIVE Entries(_, _)
Entries(keys, type) ==
    IF keys = <<>> THEN <<>>
    ELSE <<Yaml(Head(keys), IF Head(keys) = "Type" THEN type ELSE YStr("d"))>>
         \o Entries(Tail(keys), type)

KeyLists == {<<"Name", "Type", "Description">>, <<"Type", "Description">>,
             <<"Name", "Description">>, <<"Name", "Type">>, <<"Description">>,
             <<"Name">>, <<"Type">>}

AllKeys == <<"Name", "Type", "Description">>

\* frontmatter that _extract_metadata accepts
GoodFrontmatters ==
    {Fenced(Entries(AllKeys, type)) : type \in TypeValues \ {YInt("5")}}
    \cup {Fenced(Entries(AllKeys, YStr("[Operation]")) \o <<Yaml("Triggers", tv)>>) :
            tv \in TriggerValues}
    \cup {Fenced(Entries(AllKeys, YStr("[Tool]")) \o <<Yaml("Triggers", tv)>>) :
            tv \in TriggerValues}
    \cup {Fenced(Entries(AllKeys, YStr("[Playbook]")) \o <<Yaml("Triggers", tv)>>) :
            tv \in TriggerValues}

\* the tags an author may write between the brackets of Type
TypeWords == {"Tool", "Operation", "Yes", "Null", "5"}

\* frontmatter whose Type line is written as [word], flow or quoted
WrittenFrontmatters ==
    {Fenced(<<Yaml("Name", YStr("d")), TypeLine(word, quoted),
              Yaml("Description", YStr("d"))>>) :
        word \in TypeWords, quoted \in BOOLEAN}

\* frontmatter that it rejects: a key missing, a value of the wrong type, no
\* mapping, no YAML, no fence, no closing fence
BadFrontmatters ==
    {Fenced(Entries(keys, YStr("[Tool]"))) : keys \in KeyLists \ {AllKeys}}
    \cup {Fenced(Entries(AllKeys, YInt("5"))),
          Fenced(<<Yaml("Name", YStr("")), Yaml("Type", YStr("[Tool]")),
                   Yaml("Description", YStr("d"))>>),
          Fenced(<<[k |-> "yamlscalar"]>>),
          Fenced(<<[k |-> "yamlbad"]>> \o Entries(AllKeys, YStr("[Tool]"))),
          Fenced(<<>>),
          <<>>,
          <<Fm>> \o Entries(AllKeys, YStr("[Tool]"))}

BodyLines == {H1("Operations"), H1("Tools"), H1("Triggers"), H2(NameAb),
              H3("Steps"), Num(1), Bullet(Junk),
              Bullet(Alarm(Clock(6, <<>>, "am"), {})), Plain}

RECURSIVE SeqsUpTo(_, _)
SeqsUpTo(S, n) ==
    IF n = 0 THEN {<<>>}
    ELSE LET shorter == SeqsUpTo(S, n - 1)
         IN  shorter \cup {Append(q, x) : q \in shorter, x \in S}

Bodies == SeqsUpTo(BodyLines, MaxBodyLen)

\* bodies whose sections raise, whatever the frontmatter says of the type
FailingBodies ==
    {<<H1("Triggers"), Bullet(Junk)>>,
     <<H1("Operations"), H2(NameAb), H3("Steps"), Num(0)>>,
     <<H1("Operations"), H2(NameAb)>>,
     <<H1("Triggers"), Bullet(Alarm(<<>>, {}))>>}

SmallBodies == SeqsUpTo(BodyLines, 1) \cup FailingBodies

Document(frontmatter, body) == Text(frontmatter \o body, TRUE)

\* the frontmatter of a plain document and of a tool document
PlainFrontmatter == Fenced(Entries(AllKeys, YStr("[Operation]")))

ToolFrontmatter == Fenced(Entries(AllKeys, YList(<<"Tool">>)))

\* a tool, an operation with one step, a trigger
PassingBodies ==
    {<<H1("Operations"), H2(NameAb), Plain>>,
     <<H1("Operations"), H2(NameAb), Plain, H1("Triggers"), Bullet(Junk)>>,
     <<H1("Operations"), H2(NameAb), H3("Steps"), Num(1)>>,
     <<H1("Triggers"), Bullet(Alarm(Clock(6, <<>>, "am"), {}))>>}

\* the time phrases of the alarm bullets: hours 6, 12 and 13, with and
\* without minutes and am/pm, naming no weekday, one, or two
TimePhrases ==
    {[clock |-> Clock(hour, minute, am_pm), days |-> days] :
        hour \in {6, 12, 13}, minute \in {<<>>, <<30>>},
        am_pm \in {"", "am", "pm"},
        days \in {{}, {"sunday"}, {"sunday", "monday"}}}
    \cup {[clock |-> <<>>, days |-> days] : days \in {{}, {"monday"}}}

TriggerBullets ==
    {Bullet(Alarm(time.clock, time.days)) : time \in TimePhrases}
    \cup {Bullet(Event(<<>>)), Bullet(Event(<<"*@lead.com">>)), Bullet(Junk)}

FewBullets ==
    {Bullet(Alarm(Clock(6, <<>>, "am"), {})), Bullet(Event(<<"*@lead.com">>)),
     Bullet(Junk), Bullet(Alarm(<<>>, {}))}

MaxBullets == 3

\* a Triggers section of bullets
TriggerBodies ==
    {<<H1("Triggers"), b>> : b \in TriggerBullets}
    \cup {<<H1("Triggers")>> \o bs : bs \in SeqsUpTo(FewBullets, MaxBullets)}

MaxItemLines == 5

\* an Operations section whose first item holds headings, fences and text
FenceBodies ==
    {<<H1("Operations"), H2(NameAb)>> \o ls :
        ls \in SeqsUpTo({H2(NameAb), Fence(TRUE), Fence(FALSE), Plain},
                        MaxItemLines)}

MaxSteps == 3

\* the lines of a numbered list: markers 1, 2 and 5, and continuation text
StepLines == {Num(1), Num(2), Num(5), Plain}

\* an operation whose Steps list has gaps, repeats and descending markers
StepBodies ==
    {<<H1("Operations"), H2(NameAb), H3("Steps")>> \o ls :
        ls \in SeqsUpTo(StepLines, MaxSteps)}

BodyContents ==
    {Document(f, b) : f \in {PlainFrontmatter, ToolFrontmatter}, b \in Bodies}

TriggerContents ==
    {Document(f, b) : f \in GoodFrontmatters,
                      b \in SmallBodies \cup PassingBodies \cup TriggerBodies}

FenceContents ==
    {Document(f, b) : f \in {PlainFrontmatter, ToolFrontmatter},
                      b \in FenceBodies}

OtherContents ==
    {Document(f, b) : f \in WrittenFrontmatters \cup BadFrontmatters,
                      b \in SmallBodies \cup PassingBodies}

\* an Operations section under the singular spelling of its heading
SingularBodies ==
    {<<H1("Operation"), H2(NameAb)>>,
     <<H1("Operation"), H2(NameAb), H3("Steps"), Num(1)>>,
     <<H1("Operation"), H2(NameAb), H3("Inputs"), Bullet(Junk), H2(NameAb)>>}

\* values of the Triggers key that are no sequence of mappings, and one-entry
\* sequences whose entry lacks event_type or gives filters that is no mapping
ShapeValues ==
    {YInt("0"), YInt("5"), YStr(""), YStr("daily"), YList(<<"daily">>),
     [t |-> "bool", v |-> <<"False">>]}
    \cup {[t |-> "triggers", v |-> <<>>, entries |-> <<entry>>] :
            entry \in {[FmEntry EXCEPT !.dict = FALSE],
                       [FmEntry EXCEPT !.event_type = YAbsent],
                       [FmEntry EXCEPT !.filters = YStr("x")],
                       [FmEntry EXCEPT !.filters = YStr("")],
                       [FmEntry EXCEPT !.filters = YInt("0")],
                       [FmEntry EXCEPT !.filters = YList(<<>>)],
                       [FmEntry EXCEPT !.filters = YList(<<"x">>)],
                       FmEntryFiltered}}

\* plain documents with a Triggers key
ShapeContents ==
    {Document(Fenced(Entries(AllKeys, type) \o <<Yaml("Triggers", tv)>>), b) :
        type \in {YStr("[Operation]"), YStr("[Playbook]")},
        tv \in ShapeValues, b \in PassingBodies}

\* a Triggers section and an Operations section, one after the other
FollowedBodies ==
    {<<H1("Triggers"), Bullet(Event(<<>>)),
       H1("Operations"), H2(NameAb), H3("Inputs"), Bullet(Junk)>>,
     <<H1("Operations"), H2(NameAb), H3("Inputs"), Bullet(Junk),
       H1("Triggers"), Bullet(Event(<<>>))>>,
     <<H1("Operations"), H2(NameAb), H3("Steps"), Num(1),
       H1("Triggers"), Bullet(Event(<<>>))>>,
     <<H1("Operations"), H2(NameAb), H3("Checklist"), Bullet(Junk),
       H1("Triggers"), Bullet(Event(<<>>))>>}

\* plain documents made of sections
SectionContents ==
    {Document(PlainFrontmatter, b) :
        b \in StepBodies \cup SingularBodies \cup FollowedBodies}

----------------------------------------------------------------------------
(* The writer                                                              *)
(* A written text is the sequence of its non-blank lines; the blank lines  *)
(* the writer puts between sections are left out, as in every text above.  *)

\* _serialize_metadata(metadata): Name, Type and Description, in that order,
\* between --- fences.  yaml.safe_dump quotes a string that would load as
\* anything else, so each value loads as the string it is.  No other key is
\* written.
SerializeMetadata(metadata) ==
    Fenced(<<Yaml("Name", YStr(metadata.name)),
             Yaml("Type", YStr(metadata.type)),
             Yaml("Description", YStr(metadata.description))>>)

\* _serialize_imports(imports): one reference-style link line per import
SerializeImports(imports) ==
    [i \in 1..Len(imports) |->
        [k |-> "ref", concept |-> imports[i].concept_name,
         path |-> imports[i].path, anchor |-> imports[i].anchor]]

\* the ## heading and the content of each definition, in order
RECURSIVE SerializeDefinitionsFrom(_)
SerializeDefinitionsFrom(definitions) ==
    IF definitions = <<>> THEN <<>>
    ELSE <<H2(Head(definitions).name)>> \o Head(definitions).content
         \o SerializeDefinitionsFrom(Tail(definitions))

\* _serialize_local_definitions(definitions)
SerializeLocalDefinitions(definitions) ==
    IF definitions = <<>> THEN <<>>
    ELSE <<H1("Local Definitions")>> \o SerializeDefinitionsFrom(definitions)

\* _serialize_setup(setup): nothing for None and for the empty string
SerializeSetup(setup) ==
    IF setup = <<>> \/ setup[1] = <<>> THEN <<>>
    ELSE <<H1("Setup")>> \o setup[1]

\* f"- {item}" for each item
SerializeItems(items) == [i \in 1..Len(items) |-> Bullet(items[i])]

\* f"{step.step_number}. {step.instruction}" for each step: the marker is
\* written from step_number, the instruction's lines follow as they are
RECURSIVE SerializeStepsFrom(_)
SerializeStepsFrom(steps) ==
    IF steps = <<>> THEN <<>>
    ELSE <<[Head(Head(steps).instruction) EXCEPT !.n = Head(steps).step_number]>>
         \o Tail(Head(steps).instruction)
         \o SerializeStepsFrom(Tail(steps))

\* _serialize_steps(steps)
SerializeSteps(steps) ==
    IF steps = <<>> THEN <<>>
    ELSE <<H3("Steps")>> \o SerializeStepsFrom(steps)

\* _serialize_checklist(checklist): <<>> is None
SerializeChecklist(checklist) ==
    IF checklist = <<>> \/ checklist[1] = <<>> THEN <<>>
    ELSE <<H3("Checklist")>> \o SerializeItems(checklist[1])

\* _serialize_operation(operation)
SerializeOperation(operation) ==
    <<H2(operation.name)>>
    \o (IF operation.inputs # <<>>
        THEN <<H3("Inputs")>> \o SerializeItems(operation.inputs) ELSE <<>>)
    \o (IF operation.outputs # <<>>
        THEN <<H3("Outputs")>> \o SerializeItems(operation.outputs) ELSE <<>>)
    \o SerializeSteps(operation.steps)
    \o SerializeChecklist(operation.checklist)

RECURSIVE SerializeOperationsFrom(_)
SerializeOperationsFrom(operations) ==
    IF operations = <<>> THEN <<>>
    ELSE SerializeOperation(Head(operations))
         \o SerializeOperationsFrom(Tail(operations))

\* _serialize_operations(operations)
SerializeOperations(operations) ==
    IF operations = <<>> THEN <<>>
    ELSE <<H1("Operations")>> \o SerializeOperationsFrom(operations)

\* write_busy_document(parsed_doc, path): the content handed to the
\* workspace backend, or the validation error raised.  The sections written
\* are the metadata, the imports, the definitions, the setup and the
\* operations; every one of them ends with a newline.
WriteBusyDocument(parsed_doc) ==
    IF parsed_doc.metadata.name = ""
    THEN Raise(BusyValidationError("Document metadata missing Name field", <<>>))
    ELSE IF parsed_doc.metadata.type = ""
    THEN Raise(BusyValidationError("Document metadata missing Type field", <<>>))
    ELSE IF parsed_doc.metadata.description = ""
    THEN Raise(BusyValidationError("Document metadata missing Description field", <<>>))
    ELSE Ok(Text(SerializeMetadata(parsed_doc.metadata)
                 \o SerializeImports(parsed_doc.imports)
                 \o SerializeLocalDefinitions(parsed_doc.definitions)
                 \o SerializeSetup(parsed_doc.setup)
                 \o SerializeOperations(parsed_doc.operations),
                 TRUE))

----------------------------------------------------------------------------
(* parse_document as a state machine                                       *)

NotResolving ==
    /\ fs = <<>> /\ root = <<>> /\ stack = <<>> /\ visited = {}
    /\ reads = <<>> /\ status = "idle" /\ result = <<>>

InitParse ==
    /\ \/ content \in BodyContents
       \/ content \in TriggerContents
       \/ content \in FenceContents
       \/ content \in OtherContents
       \/ content \in SectionContents
       \/ content \in ShapeContents
    /\ outcome = <<>>
    /\ NotResolving

\* parse_document(content) is called and returns or raises
CallParseDocument ==
    /\ outcome = <<>>
    /\ status = "idle"
    /\ outcome' = <<ParseDocument(content)>>
    /\ UNCHANGED <<content, fs, root, stack, visited, reads, status, result>>

\* the document parse_document returned is written with write_busy_document
\* and what was written is parsed again; outcome[2] is what that gives
CallWriteBusyDocument ==
    /\ Len(outcome) = 1
    /\ outcome[1].ok
    /\ status = "idle"
    /\ LET written == WriteBusyDocument(outcome[1].val)
       IN  outcome' = Append(outcome, IF written.ok
                                      THEN ParseDocument(written.val)
                                      ELSE written)
    /\ UNCHANGED <<content, fs, root, stack, visited, reads, status, result>>

NextParse == CallParseDocument \/ CallWriteBusyDocument

SpecParse == InitParse /\ [][NextParse]_vars

----------------------------------------------------------------------------
(* Directory trees and documents handed to resolve_imports                 *)

MaxImports == 3

Ref(concept, path, anchor) ==
    [k |-> "ref", concept |-> concept, path |-> path, anchor |-> anchor]

Workspace == <<"ws">>

KeyA == <<"ws", "a.md">>

KeyB == <<"ws", "b.md">>

KeyC == <<"ws", "sub", "c.md">>

KeyV == <<"ws", "v.md">>

KeyE == <<"ws", "e.md">>

\* "#a-B" names "A b"; "#ab" names nothing
AnchorAb == <<"a", "-", "B">>

AnchorNone == <<"a", "b">>

\* a file that parses: its frontmatter names it, its imports come first
FileText(name, refs, body) ==
    Document(Fenced(<<Yaml("Name", YStr(name)), Yaml("Type", YStr("[Operation]")),
                      Yaml("Description", YStr("d"))>>),
             refs \o body)

\* a.md holds the operation "A b", b.md the local definition "A b", c.md
\* neither; v.md has no frontmatter (BusyValidationError) and e.md a step
\* numbered 0 (BusyParseError).
ImportsOfA ==
    {<<>>,
     <<Ref("X", <<"a.md">>, <<>>)>>,
     <<Ref("Y", <<".", "b.md">>, AnchorAb)>>,
     <<Ref("Y", <<"sub", "c.md">>, <<>>), Ref("Y", <<".", "b.md">>, <<>>)>>}

ImportsOfB ==
    {<<>>,
     <<Ref("X", <<"a.md">>, <<>>)>>,
     <<Ref("Y", <<"sub", "c.md">>, <<>>)>>,
     <<Ref("Y", <<"e.md">>, <<>>)>>,
     <<Ref("X", <<"sub", "c.md">>, AnchorNone)>>}

ImportsOfC ==
    {<<>>,
     <<Ref("X", <<"..", "a.md">>, <<>>)>>,
     <<Ref("X", <<"a.md">>, <<>>)>>}

Tree(a, b, c) ==
    [key \in {KeyA, KeyB, KeyC, KeyV, KeyE} |->
        CASE key = KeyA -> FileText("a", a, <<H1("Operations"), H2(NameAb)>>)
          [] key = KeyB -> FileText("b", b, <<H1("Local Definitions"), H2(NameAb), Plain>>)
          [] key = KeyC -> FileText("c", c, <<>>)
          [] key = KeyV -> Document(<<>>, <<Plain>>)
          [] key = KeyE -> FileText("e", <<>>, <<H1("Operations"), H2(NameAb),
                                                 H3("Steps"), Num(0)>>)]

Trees == {Tree(a, b, c) : a \in ImportsOfA, b \in ImportsOfB, c \in ImportsOfC}

RootRefs ==
    {Ref("X", <<"a.md">>, <<>>),
     Ref("X", <<".", "b.md">>, <<>>),
     Ref("Y", <<"sub", "c.md">>, <<>>),
     Ref("Y", <<"x.md">>, <<>>),
     Ref("X", <<"v.md">>, <<>>)}

\* the import list of the document of the top-level call
RootImports == {ParseImportLines(refs) : refs \in SeqsUpTo(RootRefs, MaxImports)}

----------------------------------------------------------------------------
(* resolve_imports as a state machine                                      *)

Init ==
    /\ ParseIdle
    /\ fs \in Trees
    /\ root \in [imports : RootImports, base_path : {Workspace}]
    /\ stack = <<>>
    /\ visited = {}
    /\ reads = <<>>
    /\ status = "ready"
    /\ result = <<>>

\* resolve_imports(document, base_path): _visited = set(), resolved = {}
Call ==
    /\ status = "ready"
    /\ status' = "running"
    /\ stack' = <<NewFrame(root.imports, root.base_path, visited)>>
    /\ UNCHANGED <<content, outcome, fs, root, visited, reads, result>>

Next ==
    \/ Call
    \/ BeginImport
    \/ ReadImport
    \/ Recurse
    \/ Return
    \/ Merge
    \/ Propagate

Spec == Init /\ [][Next]_vars

\* the top frame is in its try block, about to read the file it marked
ReadPending == status = "running" /\ Top.at = "try"

\* WF_vars(ReadImport) with its ENABLED written out: ReadImport can be taken
\* exactly when ReadPending holds, since read_text and parse_document either
\* return or raise and both outcomes are steps that append to reads
ReadImportFair == []<>(~ReadPending) \/ []<><<ReadImport>>_vars

\* resolve_imports runs on one thread and none of its steps waits for
\* anything: a step that can be taken is taken
MaxLiveImports == 2

\* the top-level import lists of the runs checked for termination
InitLive == Init /\ Len(root.imports) <= MaxLiveImports

SpecLive ==
    /\ InitLive
    /\ [][Next]_vars
    /\ WF_vars(Call)
    /\ WF_vars(BeginImport)
    /\ ReadImportFair
    /\ WF_vars(Recurse)
    /\ WF_vars(Return)
    /\ WF_vars(Merge)
    /\ WF_vars(Propagate)

----------------------------------------------------------------------------
(* The import graph of a directory tree                                    *)
(* A link is one import of one import list with the directory it is        *)
(* resolved against; the graph's nodes are the files the links lead to.    *)

\* every file of the tree, parsed
Docs == [key \in DOMAIN fs |-> ParseDocument(fs[key])]

DocAt(key) == ParseDocument(fs[key])

TargetKey(link) == PathResolve(Join(link.base, link.ref.path))

LinksOfList(imports, base) ==
    {[base |-> base, ref |-> imports[i]] : i \in 1..Len(imports)}

LinksOfFile(docs, key) ==
    IF docs[key].ok THEN LinksOfList(docs[key].val.imports, Parent(key)) ELSE {}

FilesOf(links) == {TargetKey(l) : l \in links} \cap DOMAIN fs

\* the files that can be reached from the files of S, S included
RECURSIVE FilesBelow(_, _)
FilesBelow(docs, S) ==
    LET T == S \cup FilesOf(UNION {LinksOfFile(docs, key) : key \in S})
    IN  IF T = S THEN S ELSE FilesBelow(docs, T)

RootLinks == LinksOfList(root.imports, root.base_path)

\* the graph reachable from the import list of the top-level document: its
\* files, its links, and docs
ImportGraph(docs) ==
    LET files == FilesBelow(docs, FilesOf(RootLinks))
    IN  [docs |-> docs, files |-> files,
         links |-> RootLinks \cup UNION {LinksOfFile(docs, key) : key \in files}]

EveryPathExists(g) ==
    \A l \in g.links : PathExists(fs, Join(l.base, l.ref.path))

EveryFileParses(g) ==
    \A l \in g.links : IsFile(fs, TargetKey(l)) /\ g.docs[TargetKey(l)].ok

NoAnchors(g) == \A l \in g.links : l.ref.anchor = <<>>

\* anchor is name, case ignored and the spaces of name turned into hyphens
Designates(anchor, name) == Lower(anchor) = Lower(Hyphenate(name))

\* anchor designates an operation or a local definition of doc
DesignatesItem(anchor, doc) ==
    \/ \E i \in 1..Len(doc.operations) : Designates(anchor, doc.operations[i].name)
    \/ \E i \in 1..Len(doc.definitions) : Designates(anchor, doc.definitions[i].name)

EveryAnchorMatches(g) ==
    \A l \in g.links :
        \/ l.ref.anchor = <<>>
        \/ /\ IsFile(fs, TargetKey(l))
           /\ g.docs[TargetKey(l)].ok
           /\ DesignatesItem(l.ref.anchor, g.docs[TargetKey(l)].val)

Cyclic(g) ==
    \E key \in g.files :
        key \in FilesBelow(g.docs, FilesOf(LinksOfFile(g.docs, key)))

Finished == status \in {"returned", "raised"}

IsCircularImportError(e) ==
    e.cls = "BusyImportError" /\ e.what = "Circular import detected"

----------------------------------------------------------------------------
(* Claims about resolve_imports                                            *)

\* C1: when every imported path exists, every imported file parses, no
\* import carries an anchor and the import graph reachable from the
\* document's import list has a cycle, resolve_imports ends by raising the
\* circular-import BusyImportError and returns no mapping.
C1_CycleRaises ==
    Finished =>
        LET g == ImportGraph(Docs)
        IN  (EveryPathExists(g) /\ EveryFileParses(g) /\ NoAnchors(g) /\ Cyclic(g))
                => (status = "raised" /\ IsCircularImportError(result))

\* a.md and b.md import each other: both were read, and the call raised the
\* error naming the import of b.md that closes the cycle
C1_Witness ==
    /\ status = "raised"
    /\ LET g == ImportGraph(Docs)
       IN  EveryPathExists(g) /\ EveryFileParses(g) /\ NoAnchors(g) /\ Cyclic(g)
    /\ IsCircularImportError(result)
    /\ Names(result, "path", <<".", "b.md">>)
    /\ reads[1] = KeyB
    /\ KeyA \in {reads[i] : i \in 1..Len(reads)}

\* C2 (as the claim states it): when every imported path exists, every
\* imported file parses and the import graph has no cycle, resolve_imports
\* returns a mapping.
C2_AcyclicReturnsAsClaimed ==
    Finished =>
        LET g == ImportGraph(Docs)
        IN  (EveryPathExists(g) /\ EveryFileParses(g) /\ ~Cyclic(g))
                => status = "returned"

\* C2 (amended): when every imported path exists, every imported file
\* parses, every anchor used designates an operation or a local definition of
\* its target and the import graph has no cycle, resolve_imports returns a
\* mapping, also when a file is imported by two branches: no circular-import
\* error is raised for the shared file.
C2_AcyclicReturns ==
    Finished =>
        LET g == ImportGraph(Docs)
        IN  (/\ EveryPathExists(g) /\ EveryFileParses(g)
             /\ EveryAnchorMatches(g) /\ ~Cyclic(g))
                => status = "returned"

\* c.md was read under a.md and again under b.md, and the call returned
C2_Witness ==
    /\ status = "returned"
    /\ LET g == ImportGraph(Docs)
       IN  /\ EveryPathExists(g) /\ EveryFileParses(g)
           /\ EveryAnchorMatches(g) /\ ~Cyclic(g)
    /\ \E i, j, k, l \in 1..Len(reads) :
          /\ i < j /\ j < k /\ k < l
          /\ reads[i] = KeyA /\ reads[j] = KeyC
          /\ reads[k] = KeyB /\ reads[l] = KeyC

\* C3: whenever a call of resolve_imports, top-level or recursive, ends, by
\* returning or by raising, _visited holds exactly the keys it held when the
\* call started.
C3_VisitedRestored ==
    [][Len(stack') < Len(stack) => visited' = stack[Len(stack)].entered]_vars

\* a recursive call has just raised: its caller is in its try block with its
\* own key marked, and the set is what the recursive call was given
C3_Witness ==
    /\ status = "raising"
    /\ Len(stack) = 2
    /\ Top.at = "call"
    /\ Top.import_key \notin Top.entered
    /\ visited = Top.entered \cup {Top.import_key}
    /\ Len(reads) >= 2

\* the import the loop of the top frame is at
CurrentImport == Top.imports[Top.i]

\* the frame of stack' that was the top frame of stack
SameFrame == stack'[Len(stack)]

\* C4: an import that carries an anchor resolves only if the anchor equals,
\* case ignored and the spaces of the name replaced by hyphens, the name of
\* an operation or of a local definition of the freshly parsed target;
\* otherwise resolve_imports raises an import error naming the anchor, and
\* that error is what the top-level call ends with.
C4_AnchorDecides ==
    [][/\ (/\ status = "running"
           /\ Top.at = "try"
           /\ CurrentImport.anchor # <<>>
           /\ IsFile(fs, Top.import_key)
           /\ DocAt(Top.import_key).ok)
          => IF DesignatesItem(CurrentImport.anchor, DocAt(Top.import_key).val)
             THEN /\ status' = "running"
                  /\ SameFrame.at = "stored"
                  /\ SameFrame.resolved[CurrentImport.concept_name]
                        = DocAt(Top.import_key).val
             ELSE /\ status' = "raising"
                  /\ result'.cls = "BusyImportError"
                  /\ Names(result', "anchor", CurrentImport.anchor)
       /\ (status = "raising" /\ result.what = "Anchor not found")
          => (status' \in {"raising", "raised"} /\ result' = result)
      ]_vars

\* b.md imports c.md#ab and c.md holds nothing of that name: c.md was read
\* and the top-level call raised the error naming the anchor
C4_Witness ==
    /\ status = "raised"
    /\ result.cls = "BusyImportError"
    /\ Names(result, "anchor", AnchorNone)
    /\ Len(reads) >= 2
    /\ reads[Len(reads)] = KeyC

IsParseFailure(e) == e.cls \in {"BusyValidationError", "BusyParseError"}

\* C5: when an imported file fails to parse, with a validation error or a
\* parse error from parse_document, the call importing it raises an import
\* error naming that import's path and carrying the inner cause; no call of
\* resolve_imports, at any depth, ends with a validation or parse error.
C5_ParseFailureWrapped ==
    [][(status = "raising" /\ Len(stack') < Len(stack))
          => /\ ~IsParseFailure(result')
             /\ IsParseFailure(result)
                  => /\ result'.cls = "BusyImportError"
                     /\ Names(result', "path", CurrentImport.path)
                     /\ result'.cause = <<result>>
             /\ result.cls = "BusyImportError" => result' = result
      ]_vars

\* e.md, imported by b.md, has a step numbered 0: the top-level call raised
\* the import error naming e.md and carrying the parse error
C5_Witness ==
    /\ status = "raised"
    /\ result.cls = "BusyImportError"
    /\ Names(result, "path", <<"e.md">>)
    /\ Embeds(result, "BusyParseError")
    /\ Len(reads) >= 2

\* C6: an import whose path, resolved against the base directory, does not
\* exist makes resolve_imports raise an import error naming that path,
\* before the key is looked up or marked in _visited and before anything is
\* read; once an exception is raised nothing more is read, no frame goes on
\* to a later import, and the import error reaches the top-level caller.
C6_MissingPathRaises ==
    [][/\ (/\ status = "running"
           /\ Top.at = "for"
           /\ Top.i <= Len(Top.imports)
           /\ ~PathExists(fs, Join(Top.base_path, CurrentImport.path)))
          => /\ status' = "raising"
             /\ result'.cls = "BusyImportError"
             /\ Names(result', "path", CurrentImport.path)
             /\ ~IsCircularImportError(result')
             /\ visited' = visited
             /\ reads' = reads
             /\ stack' = stack
       /\ status = "raising"
          => /\ reads' = reads
             /\ stack' = Callers
             /\ status' \in {"raising", "raised"}
             /\ result.what = "Import path not found" => result' = result
      ]_vars

\* c.md imports a.md, which ws/ holds and ws/sub/ does not: the call raised
\* the import error naming a.md after reading c.md and nothing else since
C6_Witness ==
    /\ status = "raised"
    /\ result.what = "Import path not found"
    /\ Names(result, "path", <<"a.md">>)
    /\ reads # <<>>
    /\ reads[Len(reads)] = KeyC

\* the concept names that occur more than once in an import list
Duplicated(imports) ==
    {imports[i].concept_name :
        i \in {i \in 1..Len(imports) :
                 \E j \in 1..Len(imports) :
                    j # i /\ imports[j].concept_name = imports[i].concept_name}}

\* the last import of the list under the name
LastOf(imports, name) ==
    CHOOSE i \in 1..Len(imports) :
        /\ imports[i].concept_name = name
        /\ \A j \in (i + 1)..Len(imports) : imports[j].concept_name # name

\* the concept names of the import lists of key and of the files below it
NamesBelow(docs, key) ==
    {l.ref.concept_name :
        l \in UNION {LinksOfFile(docs, k) : k \in FilesBelow(docs, {key})}}

\* the concept names that the imports of the top frame from the i-th on
\* bring in through the imports of the files they lead to
NamesFrom(docs, i) ==
    UNION {NamesBelow(docs, TargetKey([base |-> Top.base_path,
                                       ref |-> Top.imports[k]])) :
             k \in i..Len(Top.imports)}

\* the top frame is about to return its mapping
Returning ==
    /\ status = "running"
    /\ Top.at = "for"
    /\ Top.i > Len(Top.imports)

LastTarget(name) ==
    TargetKey([base |-> Top.base_path,
               ref |-> Top.imports[LastOf(Top.imports, name)]])

\* C7 (as the claim states it): when two imports of one import list share a
\* concept_name, the mapping the call returns holds under that name the
\* document of the later import.
C7_LastWinsAsClaimed ==
    (Returning /\ Duplicated(Top.imports) # {}) =>
        LET docs == Docs
        IN  \A name \in Duplicated(Top.imports) :
                Top.resolved[name] = docs[LastTarget(name)].val

\* C7 (amended): when two imports of one import list share a concept_name,
\* resolve_imports raises no error on that account, and the mapping the call
\* returns holds under that name the document of the later import unless
\* that import, or an import after it in the list, brings in an entry of the
\* same name through the imports of the files it leads to.
C7_LastWins ==
    /\ (Returning /\ Duplicated(Top.imports) # {}) =>
          LET docs == Docs
          IN  \A name \in Duplicated(Top.imports) :
                  name \notin NamesFrom(docs, LastOf(Top.imports, name))
                      => Top.resolved[name] = docs[LastTarget(name)].val
    /\ (status = "raised" /\ Duplicated(root.imports) # {}) =>
          LET g == ImportGraph(Docs)
          IN  (EveryPathExists(g) /\ EveryFileParses(g) /\ EveryAnchorMatches(g))
                  => IsCircularImportError(result)

\* a.md, then b.md, were imported as X and c.md after them as Y; b.md and
\* c.md import nothing as X, and the mapping returned holds b.md's document
\* as X
C7_Witness ==
    /\ status = "returned"
    /\ Len(root.imports) = 3
    /\ root.imports[1].concept_name = "X"
    /\ root.imports[2].concept_name = "X"
    /\ root.imports[3].concept_name = "Y"
    /\ reads[1] = KeyA
    /\ KeyC \in {reads[i] : i \in 1..Len(reads)}
    /\ "X" \notin NamesBelow(Docs, KeyB) \cup NamesBelow(Docs, KeyC)
    /\ result["X"] = DocAt(KeyB).val
    /\ result["X"] # DocAt(KeyA).val

\* the writes to the returned mapping, in the order of the depth-first
\* traversal of an import list resolved against base: for each import in
\* list order its own target under its concept_name, then the writes of the
\* target's import list
RECURSIVE WritesOf(_, _, _)
WritesOf(docs, imports, base) ==
    IF imports = <<>> THEN <<>>
    ELSE LET key == TargetKey([base |-> base, ref |-> Head(imports)])
         IN  <<[name |-> Head(imports).concept_name, doc |-> docs[key].val]>>
             \o WritesOf(docs, docs[key].val.imports, Parent(key))
             \o WritesOf(docs, Tail(imports), base)

\* the mapping in which every name holds what was written under it last
LastWritten(writes) ==
    [name \in {writes[i].name : i \in 1..Len(writes)} |->
        LET last == CHOOSE i \in 1..Len(writes) :
                       /\ writes[i].name = name
                       /\ \A j \in (i + 1)..Len(writes) : writes[j].name # name
        IN  writes[last].doc]

\* C24: the mapping resolve_imports returns is the last write under each
\* name of the depth-first traversal of the import lists in list order, in
\* which an import's own target is written before what the recursion into
\* it brings in: a nested entry replaces the direct import it descends
\* from, and a later direct import replaces every earlier entry of its name.
C24_LastWriteWins ==
    status = "returned" =>
        result = LastWritten(WritesOf(Docs, root.imports, root.base_path))

\* b.md was imported as X and imports a.md as X itself: the mapping returned
\* holds a.md's document as X; and c.md, imported after it, left X alone
C24_Witness ==
    /\ status = "returned"
    /\ Len(root.imports) >= 2
    /\ root.imports[1].concept_name = "X"
    /\ TargetKey([base |-> root.base_path, ref |-> root.imports[1]]) = KeyB
    /\ DocAt(KeyB).val.imports # <<>>
    /\ DocAt(KeyB).val.imports[1].concept_name = "X"
    /\ root.imports[2].concept_name = "Y"
    /\ result["X"] = DocAt(KeyA).val
    /\ result["X"] # DocAt(KeyB).val

\* the keys of the files entered along the current recursion branch, from
\* the top-level call's import inwards
BranchKeys ==
    LET open == SelectSeq(stack, LAMBDA frame : frame.import_key # <<>>)
    IN  [i \in 1..Len(open) |-> open[i].import_key]

NoKeyTwice(keys) ==
    \A i, j \in 1..Len(keys) : i # j => keys[i] # keys[j]

\* the calls of resolve_imports in progress: the top-level call and one for
\* every file entered
Depth == Len(stack)

\* C29: resolve_imports ends, by returning or by raising, whatever the import
\* graph: along the recursion branch no file key is entered twice, so the
\* calls in progress are never more than the files and the top-level call.
C29_Terminates ==
    /\ [](NoKeyTwice(BranchKeys) /\ Depth <= Cardinality(DOMAIN fs) + 1)
    /\ <>Finished

\* a.md imports itself, the top-level document imports a.md, and the call
\* has ended
C29_Witness ==
    /\ Finished
    /\ Len(root.imports) >= 1
    /\ TargetKey([base |-> root.base_path, ref |-> root.imports[1]]) = KeyA
    /\ DocAt(KeyA).ok
    /\ DocAt(KeyA).val.imports # <<>>
    /\ TargetKey([base |-> Parent(KeyA), ref |-> DocAt(KeyA).val.imports[1]]) = KeyA
    /\ reads # <<>>
    /\ IsCircularImportError(result)

----------------------------------------------------------------------------
(* Claims about parse_document                                             *)

Parsed == outcome # <<>>

IsDomainError(e) == e.cls \in {"BusyValidationError", "BusyImportError"}

\* C8: no exception other than a validation, import or parse error leaves
\* parse_document: a validation or import error raised inside it reaches the
\* caller unchanged, and any other exception raised by a sub-parser reaches
\* the caller as a parse error carrying it.
C8_OnlyDomainErrorsEscape ==
    Parsed =>
        LET inner == ParseDocumentTry(content)
            outer == outcome[1]
        IN  /\ inner.ok => outer = inner
            /\ ~inner.ok =>
                  /\ ~outer.ok
                  /\ IF IsDomainError(inner.exc)
                     THEN outer.exc = inner.exc
                     ELSE /\ outer.exc.cls = "BusyParseError"
                          /\ outer.exc.cause = <<inner.exc>>

\* a step numbered 0 fails the field validation of Step, and the caller
\* received the parse error carrying that failure
C8_Witness ==
    /\ Parsed
    /\ ~outcome[1].ok
    /\ outcome[1].exc.cls = "BusyParseError"
    /\ Embeds(outcome[1].exc, "ValidationError")
    /\ \E i \in 1..Len(content.lines) : content.lines[i] = Num(0)

RequiredOrder == <<"Name", "Type", "Description">>

\* the content opens with a fence and has a second one
IsFenced(c) ==
    /\ c.lines # <<>>
    /\ c.lines[1].k = "fm"
    /\ \E j \in 2..Len(c.lines) : c.lines[j].k = "fm"

\* the lines between the first two fences
FrontLines(c) ==
    SubSeq(c.lines, 2, Min({j \in 2..Len(c.lines) : c.lines[j].k = "fm"}) - 1)

IsMapping(ls) == ls # <<>> /\ \A i \in 1..Len(ls) : ls[i].k = "yaml"

MissingKeys(ls) ==
    {i \in 1..Len(RequiredOrder) :
        \A j \in 1..Len(ls) : ~(ls[j].k = "yaml" /\ ls[j].key = RequiredOrder[i])}

\* C9: content without fenced frontmatter, or whose frontmatter is not a
\* YAML mapping, makes parse_document raise a validation error, and
\* frontmatter lacking one of Name, Type, Description makes it raise the
\* validation error naming the first key missing in that order, whatever the
\* body holds.
C9_FrontmatterFirst ==
    Parsed =>
        IF ~IsFenced(content) \/ ~IsMapping(FrontLines(content))
        THEN /\ ~outcome[1].ok
             /\ outcome[1].exc.cls = "BusyValidationError"
        ELSE MissingKeys(FrontLines(content)) # {} =>
                /\ ~outcome[1].ok
                /\ outcome[1].exc.cls = "BusyValidationError"
                /\ Names(outcome[1].exc, "field",
                         RequiredOrder[Min(MissingKeys(FrontLines(content)))])

\* Name and Type are both missing and the body holds a trigger bullet of
\* neither grammar: the error raised names Name
C9_Witness ==
    /\ Parsed
    /\ IsFenced(content)
    /\ IsMapping(FrontLines(content))
    /\ MissingKeys(FrontLines(content)) = {1, 2}
    /\ \E i \in 1..Len(content.lines) : content.lines[i] = Bullet(Junk)
    /\ ~outcome[1].ok
    /\ Names(outcome[1].exc, "field", "Name")

\* C10: a document parse_document returns is a ToolDocument if and only if
\* its metadata.type is exactly "[Tool]", whatever its body holds.
C10_ToolVariant ==
    (Parsed /\ outcome[1].ok) =>
        (outcome[1].val.class = "ToolDocument"
            <=> outcome[1].val.metadata.type = "[Tool]")

\* "Type: [Tool]" read as a YAML list gave the type "[Tool]", and the document
\* returned, with a Triggers section in its body, is a ToolDocument
C10_Witness ==
    /\ Parsed
    /\ outcome[1].ok
    /\ outcome[1].val.class = "ToolDocument"
    /\ \E i \in 1..Len(content.lines) :
          content.lines[i] = Yaml("Type", YList(<<"Tool">>))
    /\ \E i \in 1..Len(content.lines) : content.lines[i] = H1("Triggers")

\* what _extract_metadata makes of the content handed in
Extracted == ExtractMetadata(content)

HasMetadata == Extracted.ok

DocType == Extracted.val.metadata.type

Body == Extracted.val.remaining_content

NoToolsMessage == "Tool document must contain at least one tool definition"

\* C11: a document of type "[Tool]" for which the tools parser finds no tool
\* makes parse_document raise the validation error that asks for at least
\* one tool, and no ToolDocument that parse_document returns has an empty
\* tools list.
C11_ToolsRequired ==
    Parsed =>
        /\ (/\ HasMetadata
            /\ DocType = "[Tool]"
            /\ ParseOperations(Body).ok
            /\ ParseToolsSection(Body) = Ok(<<>>))
              => /\ ~outcome[1].ok
                 /\ outcome[1].exc.cls = "BusyValidationError"
                 /\ outcome[1].exc.what = NoToolsMessage
        /\ (outcome[1].ok /\ outcome[1].val.class = "ToolDocument")
              => outcome[1].val.tools # <<>>

\* a Tool document whose Operations section holds no ## heading was
\* refused with the validation error that asks for a tool
C11_Witness ==
    /\ Parsed
    /\ HasMetadata
    /\ DocType = "[Tool]"
    /\ Body.lines = <<H1("Operations"), Plain>>
    /\ ~outcome[1].ok
    /\ outcome[1].exc.cls = "BusyValidationError"
    /\ outcome[1].exc.what = NoToolsMessage

\* the exceptions that parsing a trigger declaration raises: the validation
\* errors of the two trigger parsers and the parse error that carries a
\* rejected Trigger
IsTriggerError(e) ==
    \/ e.what \in {"Invalid trigger declaration",
                   "Frontmatter Triggers field must be a list",
                   "Each trigger in frontmatter must be a dictionary",
                   "Frontmatter trigger missing required field",
                   "Trigger filters must be a dictionary"}
    \/ (e.cause # <<>> /\ e.cause[1].what = "Trigger")

\* C12: every ToolDocument parse_document returns has an empty triggers
\* list, and for a document of type "[Tool]" no exception it raises is a
\* trigger error, whatever the Triggers section and the Triggers key hold.
C12_ToolTriggersEmpty ==
    Parsed =>
        /\ (outcome[1].ok /\ outcome[1].val.class = "ToolDocument")
              => outcome[1].val.triggers = <<>>
        /\ (HasMetadata /\ DocType = "[Tool]" /\ ~outcome[1].ok)
              => ~IsTriggerError(outcome[1].exc)

\* a Tool document whose frontmatter says "Triggers: daily" and whose
\* Triggers section holds a bullet of neither grammar was returned, with no
\* triggers
C12_Witness ==
    /\ Parsed
    /\ outcome[1].ok
    /\ outcome[1].val.class = "ToolDocument"
    /\ outcome[1].val.triggers = <<>>
    /\ \E i \in 1..Len(content.lines) :
          content.lines[i] = Yaml("Triggers", YStr("daily"))
    /\ \E i \in 2..Len(Body.lines) :
          Body.lines[i - 1] = H1("Triggers") /\ Body.lines[i] = Bullet(Junk)

\* the names of the ## lines of ls, in order
HeadingNames(ls) ==
    LET hs == SelectSeq(ls, IsH2)
    IN  [i \in 1..Len(hs) |-> hs[i].name]

\* b is a section headed "# Tools" or "# Tool" that holds nothing but tool
\* items, each a ## heading followed by its description
ItemsUnderTools(b) ==
    LET ls == b.lines
        n == Len(ls)
    IN  /\ n >= 2
        /\ ls[1].k = "h1" /\ ls[1].label \in {"Tools", "Tool"}
        /\ \A i \in 2..n : ls[i].k \in {"h2", "text"}
        /\ ls[2].k = "h2"
        /\ \A i \in 2..n : ls[i].k = "h2" => (i < n /\ ls[i + 1].k = "text")

\* C13: a document of type "[Tool]" whose tool items, each a ## heading with
\* a description, sit under a "# Tools" or "# Tool" heading parses to a
\* ToolDocument that holds those tools.
C13_ToolsUnderToolsHeading ==
    (Parsed /\ HasMetadata /\ DocType = "[Tool]" /\ ItemsUnderTools(Body)) =>
        /\ outcome[1].ok
        /\ outcome[1].val.class = "ToolDocument"
        /\ [i \in 1..Len(outcome[1].val.tools) |-> outcome[1].val.tools[i].name]
              = HeadingNames(Body.lines)

\* the depth of fence nesting after the first n lines of ls: a fence line
\* with an info string opens a block, a bare one closes the innermost open
\* block, or opens one when none is open
RECURSIVE FenceDepth(_, _)
FenceDepth(ls, n) ==
    IF n = 0 THEN 0
    ELSE LET d == FenceDepth(ls, n - 1)
         IN  IF ~IsFenceLine(ls[n]) THEN d
             ELSE IF ls[n].info THEN d + 1
             ELSE IF d > 0 THEN d - 1
             ELSE 1

\* the ## lines of ls that lie in no fenced block
HeadingsOutsideFences(ls) ==
    {i \in 1..Len(ls) : IsH2(ls[i]) /\ FenceDepth(ls, i - 1) = 0}

\* the body is one Operations section in which every fence is closed
IsFencedSection(b) ==
    /\ b.lines # <<>>
    /\ b.lines[1] = H1("Operations")
    /\ FenceDepth(Tail(b.lines), Len(b.lines) - 1) = 0

\* C14: in an Operations section a ## line inside a fenced block, a fence
\* nested in another fence included, starts no item: the number of
\* operations parsed, and of tools in a Tool document, is the number of ##
\* lines outside the fences.
C14_FencedHeadingsIgnored ==
    (Parsed /\ outcome[1].ok /\ IsFencedSection(Body)) =>
        LET items == Cardinality(HeadingsOutsideFences(Tail(Body.lines)))
        IN  /\ Len(outcome[1].val.operations) = items
            /\ outcome[1].val.class = "ToolDocument"
                  => Len(outcome[1].val.tools) = items

IsDeclaration(l) == l.k = "bullet"

\* the texts of the bullet lines that follow the first Triggers heading of
\* the body, in order
MarkdownBullets(b) ==
    LET heads == {i \in 1..Len(b.lines) :
                     /\ b.lines[i].k = "h1"
                     /\ b.lines[i].label \in {"Triggers", "Trigger"}}
        bs == IF heads = {} THEN <<>>
              ELSE SelectSeq(SubSeqFrom(b.lines, Min(heads) + 1), IsDeclaration)
    IN  [j \in 1..Len(bs) |-> bs[j].text]

\* the entries of the frontmatter's Triggers sequence, in order
FrontmatterEntries(data) ==
    IF "Triggers" \in DOMAIN data /\ data["Triggers"].t = "triggers"
    THEN data["Triggers"].entries
    ELSE <<>>

ReturnedPlain == Parsed /\ outcome[1].ok /\ outcome[1].val.class = "BusyDocument"

\* the trigger that stands, counted from the end, where the j-th of n
\* bullets would
TriggerOfBullet(j, n) ==
    outcome[1].val.triggers[Len(outcome[1].val.triggers) - n + j]

ClaimedHour(clock) ==
    IF clock.am_pm = "pm" /\ clock.hour # 12 THEN clock.hour + 12
    ELSE IF clock.am_pm = "am" /\ clock.hour = 12 THEN 0
    ELSE clock.hour

ClaimedMinute(clock) == IF clock.minute = <<>> THEN 0 ELSE clock.minute[1]

ClaimedDay(days) ==
    IF "monday" \in days THEN "1"
    ELSE IF "tuesday" \in days THEN "2"
    ELSE IF "wednesday" \in days THEN "3"
    ELSE IF "thursday" \in days THEN "4"
    ELSE IF "friday" \in days THEN "5"
    ELSE IF "saturday" \in days THEN "6"
    ELSE IF "sunday" \in days THEN "0"
    ELSE "*"

\* C15: in a document returned, the trigger of an alarm bullet has type
\* alarm, the bullet's operation, and the schedule "M H * * D" with M the
\* minutes of the first clock time of the phrase (0 when it has none), H its
\* hour plus 12 if pm and not 12, 0 if am and 12, else the hour, and D the
\* cron digit of the first of Monday, ..., Sunday that the phrase names, "*"
\* when it names none.
C15_AlarmSchedule ==
    ReturnedPlain =>
        LET bs == MarkdownBullets(Body)
            n == Len(bs)
        IN  /\ Len(outcome[1].val.triggers) >= n
            /\ \A j \in 1..n :
                  bs[j].g = "alarm" =>
                      LET t == TriggerOfBullet(j, n)
                          clock == bs[j].time.clock[1]
                      IN  /\ t.trigger_type = "alarm"
                          /\ t.operation = bs[j].op
                          /\ t.schedule =
                                <<[minute |-> ClaimedMinute(clock),
                                   hour |-> ClaimedHour(clock),
                                   day_of_week |-> ClaimedDay(bs[j].time.days)]>>

\* "set alarm for 12:30am sunday monday to run Run" gave the schedule
\* "30 0 * * 1"
C15_Witness ==
    /\ ReturnedPlain
    /\ MarkdownBullets(Body)
          = <<Alarm(Clock(12, <<30>>, "am"), {"sunday", "monday"})>>
    /\ outcome[1].val.triggers[1].schedule
          = <<[minute |-> 30, hour |-> 0, day_of_week |-> "1"]>>

\* C16: in a document returned, the trigger of an event bullet has type
\* event, the bullet's event type and operation, queue_when_paused true, and
\* the filter {"from": phrase} when the bullet has a from-clause and no
\* filter otherwise; a bullet of the alarm grammar yields an alarm trigger.
C16_EventTrigger ==
    ReturnedPlain =>
        LET bs == MarkdownBullets(Body)
            n == Len(bs)
        IN  /\ Len(outcome[1].val.triggers) >= n
            /\ \A j \in 1..n :
                  LET t == TriggerOfBullet(j, n)
                  IN  /\ bs[j].g = "event" =>
                          /\ t.trigger_type = "event"
                          /\ t.event_type = <<bs[j].event_type>>
                          /\ t.operation = bs[j].op
                          /\ t.queue_when_paused = TRUE
                          /\ t.schedule = <<>>
                          /\ t.filter = IF bs[j].from = <<>> THEN <<>>
                                        ELSE <<[from |-> bs[j].from[1]]>>
                      /\ bs[j].g = "alarm" => t.trigger_type = "alarm"

\* "when mail.received from *@lead.com, run Run" gave an event trigger with
\* the filter {"from": "*@lead.com"}, after an alarm bullet
C16_Witness ==
    /\ ReturnedPlain
    /\ MarkdownBullets(Body)
          = <<Alarm(Clock(6, <<>>, "am"), {}), Event(<<"*@lead.com">>)>>
    /\ outcome[1].val.triggers[2].trigger_type = "event"
    /\ outcome[1].val.triggers[2].filter = <<[from |-> "*@lead.com"]>>
    /\ outcome[1].val.triggers[1].trigger_type = "alarm"

\* a bullet of neither grammar, or an alarm bullet whose phrase has no digit
IsMalformed(text) ==
    \/ text.g = "other"
    \/ (text.g = "alarm" /\ text.time.clock = <<>>)

NamesBullet(text) ==
    /\ ~outcome[1].ok
    /\ outcome[1].exc.cls = "BusyValidationError"
    /\ Names(outcome[1].exc, "trigger", text)

C18_TriggersConcatenated ==
    ReturnedPlain =>
        LET fm == FrontmatterEntries(Extracted.val.data)
            bs == MarkdownBullets(Body)
            ts == outcome[1].val.triggers
        IN  /\ Len(ts) = Len(fm) + Len(bs)
            /\ \A i \in 1..Len(fm) :
                  /\ ts[i].raw_text.g = "frontmatter"
                  /\ ts[i].event_type = fm[i].event_type.v
            /\ \A j \in 1..Len(bs) : ts[Len(fm) + j].raw_text = bs[j]

\* two frontmatter entries and two bullets gave four triggers, the second
\* entry and the first bullet both for mail.received
C18_Witness ==
    /\ ReturnedPlain
    /\ Len(FrontmatterEntries(Extracted.val.data)) = 2
    /\ Len(MarkdownBullets(Body)) = 2
    /\ Len(outcome[1].val.triggers) = 4
    /\ outcome[1].val.triggers[1].event_type = <<"file.changed">>
    /\ outcome[1].val.triggers[2].event_type = <<"mail.received">>
    /\ outcome[1].val.triggers[3].event_type = <<"mail.received">>
    /\ outcome[1].val.triggers[4].trigger_type = "alarm"

\* the triggers of the document returned that come from the frontmatter
FromFrontmatter ==
    {i \in 1..Len(outcome[1].val.triggers) :
        outcome[1].val.triggers[i].raw_text.g = "frontmatter"}

WrittenTypeLines ==
    {i \in 1..Len(content.lines) :
        /\ content.lines[i].k = "yaml"
        /\ content.lines[i].key = "Type"
        /\ "written" \in DOMAIN content.lines[i]}

\* C20: when the frontmatter is valid and writes Type as [Word], flow or
\* quoted, the metadata's type is the string "[Word]" as written, however
\* YAML typed the element.
C20_TypeAsWritten ==
    (Parsed /\ HasMetadata) =>
        \A i \in WrittenTypeLines : DocType = content.lines[i].written

----------------------------------------------------------------------------
(* Claims about the sections of a plain document                           *)

\* the Operations section of the body as the operations parser cuts it
OperationsSection(b) ==
    LET i == FirstLine(b, "h1", OperationsHeading)
    IN  IF i = 0 THEN Text(<<>>, FALSE) ELSE RestSection(b, i)

\* the lines of the k-th item of a section, its heading line left out
ItemLines(sec, k) ==
    LET starts == Boundaries(sec)
        i == CHOOSE s \in starts : Cardinality({r \in starts : r <= s}) = k
    IN  SubSeq(sec.lines, i + 1, ItemEnd(sec, i))

\* the numbered list under the first Steps heading of an item: the lines
\* after that heading, up to the next ### heading
StepsList(ls) ==
    LET heads == {i \in 1..Len(ls) :
                     ls[i].k = "h3" /\ ls[i].label \in {"Steps", "Step"}}
        first == Min(heads)
        ends == {e \in (first + 2)..Len(ls) : ls[e].k = "h3"}
    IN  IF heads = {} THEN <<>>
        ELSE SubSeq(ls, first + 1,
                    IF ends = {} THEN Len(ls) ELSE Min(ends) - 1)

IsNumbered(l) == l.k = "num"

\* the integers of the list markers of ls, in document order
Markers(ls) ==
    LET ms == SelectSeq(ls, IsNumbered)
    IN  [j \in 1..Len(ms) |-> ms[j].n]

StepNumbers(operation) ==
    [j \in 1..Len(operation.steps) |-> operation.steps[j].step_number]

\* the parse error that carries a rejected Step
IsStepError(e) == e.cause # <<>> /\ e.cause[1].what = "Step"

\* C21: the steps of every operation of a returned document carry, in
\* document order, the integers of the markers of the numbered list under
\* the operation's Steps heading, neither renumbered nor reordered; and a
\* list whose markers are all at least 1 is not rejected, whatever their
\* gaps, repeats or order.
C21_StepNumbersAsWritten ==
    (Parsed /\ HasMetadata /\ DocType # "[Tool]") =>
        LET sec == OperationsSection(Body)
            items == Cardinality(Boundaries(sec))
        IN  /\ outcome[1].ok =>
                /\ Len(outcome[1].val.operations) = items
                /\ \A k \in 1..items :
                      StepNumbers(outcome[1].val.operations[k])
                          = Markers(StepsList(ItemLines(sec, k)))
            /\ (\A k \in 1..items :
                   \A j \in 1..Len(StepsList(ItemLines(sec, k))) :
                       IsNumbered(StepsList(ItemLines(sec, k))[j])
                           => StepsList(ItemLines(sec, k))[j].n >= 1)
                  => ~(~outcome[1].ok /\ IsStepError(outcome[1].exc))

\* a returned operation whose steps are numbered 5, 1, 1
C21_Witness ==
    /\ ReturnedPlain
    /\ Body.lines = <<H1("Operations"), H2(NameAb), H3("Steps"),
                      Num(5), Num(1), Num(1)>>
    /\ StepNumbers(outcome[1].val.operations[1]) = <<5, 1, 1>>

WrittenAndParsed == Len(outcome) = 2

SameStructuredFields(first, second) ==
    /\ second.metadata = first.metadata
    /\ second.imports = first.imports
    /\ second.definitions = first.definitions
    /\ second.setup = first.setup
    /\ second.operations = first.operations
    /\ second.triggers = first.triggers

\* no definition content, setup or step instruction of the document holds a
\* ## or ### heading line
NoEmbeddedHeadings(doc) ==
    /\ \A i \in 1..Len(doc.definitions) :
          \A j \in 1..Len(doc.definitions[i].content) :
              doc.definitions[i].content[j].k \notin {"h2", "h3"}
    /\ \A i \in 1..Len(doc.setup) :
          \A j \in 1..Len(doc.setup[i]) : doc.setup[i][j].k \notin {"h2", "h3"}
    /\ \A i \in 1..Len(doc.operations) :
          \A s \in 1..Len(doc.operations[i].steps) :
              \A j \in 1..Len(doc.operations[i].steps[s].instruction) :
                  doc.operations[i].steps[s].instruction[j].k \notin {"h2", "h3"}

\* C22: when a plain document that parse_document returned, with no ## or
\* ### heading inside its free-text fields, is written by
\* write_busy_document and the text written is parsed again, the second
\* parse returns a document equal to the first on metadata, imports,
\* definitions, setup, operations and triggers.
C22_RoundTrip ==
    (WrittenAndParsed /\ outcome[1].val.class = "BusyDocument"
                      /\ NoEmbeddedHeadings(outcome[1].val)) =>
        /\ outcome[2].ok
        /\ SameStructuredFields(outcome[1].val, outcome[2].val)

\* the text with every "# Operation" heading line spelled "# Operations"
SpelledPlural(t) ==
    Text([i \in 1..Len(t.lines) |->
             IF t.lines[i].k = "h1" /\ t.lines[i].label = "Operation"
             THEN [t.lines[i] EXCEPT !.label = "Operations"]
             ELSE t.lines[i]],
         t.nl)

UsesSingular(t) ==
    \E i \in 1..Len(t.lines) :
        t.lines[i].k = "h1" /\ t.lines[i].label = "Operation"

\* C23: a plain document that heads its operations section "# Operation"
\* parses to the operations list that the same document with the heading
\* spelled "# Operations" parses to.
C23_EitherSpelling ==
    (Parsed /\ HasMetadata /\ DocType # "[Tool]" /\ UsesSingular(Body)
            /\ ParseDocument(SpelledPlural(content)).ok) =>
        /\ outcome[1].ok
        /\ outcome[1].val.operations
              = ParseDocument(SpelledPlural(content)).val.operations

\* the texts of the bullet lines between the first Triggers heading of the
\* body and the next top-level heading, in order
SectionBullets(b) ==
    LET n == Len(b.lines)
        heads == {i \in 1..n :
                     /\ b.lines[i].k = "h1"
                     /\ b.lines[i].label \in {"Triggers", "Trigger"}}
        first == Min(heads)
        nexts == {e \in (first + 1)..n : b.lines[e].k = "h1"}
        bs == SelectSeq(SubSeq(b.lines, first + 1,
                               IF nexts = {} THEN n ELSE Min(nexts) - 1),
                        IsDeclaration)
    IN  IF heads = {} THEN <<>> ELSE [j \in 1..Len(bs) |-> bs[j].text]

IsInvalidDeclaration(e) ==
    e.cls = "BusyValidationError" /\ e.what = "Invalid trigger declaration"

\* C25: in a document that is no Tool document the markdown triggers are
\* those of the bullet lines between the Triggers heading and the next
\* top-level heading: a document returned holds one trigger for each
\* frontmatter entry and each of these bullets, and a trigger validation
\* error names one of these bullets, never a bullet of a later section.
C25_TriggersSectionOnly ==
    (Parsed /\ HasMetadata /\ DocType # "[Tool]") =>
        LET bs == SectionBullets(Body)
        IN  /\ outcome[1].ok =>
                Len(outcome[1].val.triggers)
                    = Len(FrontmatterEntries(Extracted.val.data)) + Len(bs)
            /\ (~outcome[1].ok /\ IsInvalidDeclaration(outcome[1].exc)) =>
                \E j \in 1..Len(bs) : NamesBullet(bs[j])

\* the body up to the top-level heading that follows its Operations
\* heading: the Operations section is its last section
CutAfterOperations(b) ==
    LET n == Len(b.lines)
        heads == {i \in 1..n :
                     b.lines[i].k = "h1" /\ b.lines[i].label = "Operations"}
        nexts == {e \in (Min(heads) + 1)..n : b.lines[e].k = "h1"}
    IN  IF heads = {} \/ nexts = {} THEN b
        ELSE Text(SubSeq(b.lines, 1, Min(nexts) - 1), TRUE)

\* the body has one Operations heading
OneOperationsSection(b) ==
    Cardinality({i \in 1..Len(b.lines) :
                    b.lines[i].k = "h1" /\ b.lines[i].label = "Operations"}) = 1

\* C26: in a plain document returned that has one Operations heading, the
\* last operation of the Operations section has the inputs, outputs, steps
\* and checklist it would have if the document ended where the next
\* top-level section begins: no line of a later section is part of them.
C26_LastOperationEnds ==
    (ReturnedPlain /\ OneOperationsSection(Body)) =>
        LET section == ParseOperations(CutAfterOperations(Body))
            last == Len(section.val)
        IN  /\ section.ok
            /\ last > 0 =>
                  /\ Len(outcome[1].val.operations) >= last
                  /\ outcome[1].val.operations[last] = section.val[last]

\* the value of the Triggers key is a sequence of mappings
IsSequenceOfMappings(value) ==
    /\ value.t = "triggers"
    /\ \A i \in 1..Len(value.entries) : value.entries[i].dict

LacksEventType(entry) == entry.event_type.t = "absent"

\* filters is given, and what is given is no mapping
FiltersNoMapping(entry) ==
    entry.filters.t \notin {"absent", "null", "map", "mapx"}

\* the Triggers value is not of the shape required of it
Misshaped(value) ==
    \/ ~IsSequenceOfMappings(value)
    \/ \E i \in 1..Len(value.entries) :
          LacksEventType(value.entries[i]) \/ FiltersNoMapping(value.entries[i])

\* C27: for a document that is no Tool document and whose operations parse,
\* when the frontmatter has a Triggers key whose value (other than null) is
\* not a sequence of mappings, or has an entry without event_type or with a
\* filters that is no mapping, parse_document raises a validation error.
C27_TriggersShapeValidated ==
    (/\ Parsed /\ HasMetadata /\ DocType # "[Tool]"
     /\ ParseOperations(Body).ok
     /\ "Triggers" \in DOMAIN Extracted.val.data
     /\ Extracted.val.data["Triggers"].t # "null"
     /\ Misshaped(Extracted.val.data["Triggers"])) =>
        /\ ~outcome[1].ok
        /\ outcome[1].exc.cls = "BusyValidationError"

\* the section of the body that the tools parser reads
ToolsSection(b) ==
    LET i == FirstLine(b, "h1", ToolsHeading)
    IN  IF i = 0 THEN Text(<<>>, FALSE) ELSE RestSection(b, i)

\* an item without a leading paragraph: nothing follows its heading, or a
\* ### sub-heading does
NoLeadingParagraph(ls) == ls = <<>> \/ IsH3(ls[1])

\* C28: in a document of type "[Tool]" whose operations parse, a tool item
\* without a leading paragraph before its first ### sub-heading makes
\* parse_document raise the validation error that names a tool as missing
\* its description: no sub-heading with its bullets is taken for one.
C28_DescriptionRequired ==
    (Parsed /\ HasMetadata /\ DocType = "[Tool]" /\ ParseOperations(Body).ok) =>
        LET sec == ToolsSection(Body)
            items == Cardinality(Boundaries(sec))
        IN  (\E k \in 1..items : NoLeadingParagraph(ItemLines(sec, k))) =>
                /\ ~outcome[1].ok
                /\ outcome[1].exc.cls = "BusyValidationError"
                /\ outcome[1].exc.what = "Tool missing description"
                /\ Names(outcome[1].exc, "tool", NameAb)

\* C30: every alarm trigger of a document returned has a schedule whose
\* minute field is within 0..59 and whose hour field is within 0..23,
\* whatever time phrase its bullet gave.
C30_ValidCron ==
    (Parsed /\ outcome[1].ok) =>
        \A i \in 1..Len(outcome[1].val.triggers) :
            outcome[1].val.triggers[i].trigger_type = "alarm" =>
                /\ outcome[1].val.triggers[i].schedule # <<>>
                /\ outcome[1].val.triggers[i].schedule[1].minute \in 0..59
                /\ outcome[1].val.triggers[i].schedule[1].hour \in 0..23

====
